---- MODULE Spec2Model ----
(***************************************************************************)
(* RoomPlan scan importer of the floor plan editor                         *)
(* (utils/roomplan_importer.py) and the geometry it builds on              *)
(* (core/geometry.py).                                                     *)
(*                                                                         *)
(* Lengths are counted in units of 1/UnitsPerInch inch, so that the        *)
(* midpoints and the tolerances of the code are exact integers.  A Point   *)
(* or Wall object carries the identity Python gives it as the field id.    *)
(* Sequences are 1-based: input wall 0 of the code is walls[1].            *)
(***************************************************************************)
EXTENDS Integers, Sequences, FiniteSets, TLC

VARIABLES
    pc,             \* position in the running function
    caller,         \* who called the running function: "import" or "direct"
    nextId,         \* next fresh object identity (Point, Wall)
    walls,          \* the list of Wall objects the function was given (temp_walls)
    walls0,         \* history: the list as it was when the function was entered
    graph,          \* _order_walls_fixed: connectivity graph
    ordered,        \* _order_walls_fixed: traced chain
    visited,        \* _order_walls_fixed: set of visited wall indices
    current_idx,    \* _order_walls_fixed: wall the trace stands on
    ordered_walls,  \* value returned by _order_walls_fixed
    order_outcome,  \* "none", "empty", "single", "fallback", "closed", "open"
    corner_snap_tolerance,  \* RoomPlanImporter.corner_snap_tolerance
    snap_i,         \* _snap_corners: index i of the outer loop
    snap_j,         \* _snap_corners: index j of the inner loop
    point1,         \* _snap_corners: the point read when outer iteration i began
    snapped_count,  \* _snap_corners: snaps so far, and the value returned
    snap_calls,     \* how many times _snap_corners has been entered
    data,           \* import_from_dict: the parsed document
    floor_plan,     \* import_from_dict: the FloorPlan being filled
    rec_i,          \* index of the record the running loop stands on
    extracted,      \* history: the list _create_walls_from_data returned
    door_width,     \* _import_doors: the converted width of the door
    door_type,      \* _import_doors: the OpeningType chosen for it
    window_width,   \* _import_windows: the converted width of the window
    window_type,    \* _import_windows: the OpeningType chosen for it
    commands,       \* UndoStack.commands
    current_index,  \* UndoStack.current_index
    max_size,       \* UndoStack.max_size
    calls,          \* history: the calls made on the UndoStack, with their outcomes
    running,        \* the thread whose call the variables above belong to
    parked          \* the calls of the threads that are not running

orderVars == <<graph, ordered, visited, current_idx, ordered_walls, order_outcome>>
snapVars == <<snap_i, snap_j, point1, snapped_count, snap_calls>>
importVars == <<data, floor_plan, rec_i, extracted>>
typeVars == <<door_width, door_type, window_width, window_type>>
undoVars == <<commands, current_index, max_size, calls>>
threadVars == <<running, parked>>
vars == <<pc, caller, nextId, walls, walls0, corner_snap_tolerance, orderVars, snapVars,
          importVars, typeVars, undoVars, threadVars>>

----------------------------------------------------------------------------
(* Units and geometry                                                      *)

UnitsPerInch == 16 * 16

Inches(n) == n * UnitsPerInch

\* Point.distance_to, squared (the code compares the distance with a bound;
\* both sides are squared here)
DistSq(p, q) == (p.x - q.x) * (p.x - q.x) + (p.y - q.y) * (p.y - q.y)

Point(px, py, pid) == [x |-> px, y |-> py, id |-> pid]

\* two points at the same coordinates (dataclass equality of Point)
SamePlace(p, q) == p.x = q.x /\ p.y = q.y

\* Wall(start, end, thickness, wall_type, height): a new Wall object
Wall(s, e, t, wt, h, wid) ==
    [start |-> s, end |-> e, thickness |-> t, wall_type |-> wt, height |-> h,
     id |-> wid]

----------------------------------------------------------------------------
(* _snap_corners                                                           *)

\* corner_snap_tolerance: float = 6.0
DefaultSnapTolerance == Inches(6)

\* value of a local that has not been assigned
NoPoint == [x |-> 0, y |-> 0, id |-> 0]

\* endpoints[e] = (wall, is_start): start and end of each wall, in list order
EndpointWall(e) == (e + 1) \div 2

EndpointIsStart(e) == e % 2 = 1

\* wall.start if is_start else wall.end
EndpointPoint(ws, e) ==
    IF EndpointIsStart(e) THEN ws[EndpointWall(e)].start ELSE ws[EndpointWall(e)].end

\* wall.start = p or wall.end = p, on the wall object of endpoint e
SetEndpoint(ws, e, p) ==
    IF EndpointIsStart(e)
    THEN [ws EXCEPT ![EndpointWall(e)].start = p]
    ELSE [ws EXCEPT ![EndpointWall(e)].end = p]

\* distance > 0 and distance < tolerance
ShouldSnap(p, q, tolerance) ==
    /\ DistSq(p, q) > 0
    /\ DistSq(p, q) < tolerance * tolerance

\* mutant: both endpoints are moved onto the first point
AvgPoint_SnapToFirst(p, q, pid) == Point(p.x, p.y, pid)

\* avg_point = Point((point1.x + point2.x) / 2, (point1.y + point2.y) / 2)
AvgPoint(p, q, pid) == Point((p.x + q.x) \div 2, (p.y + q.y) \div 2, pid)

\* the list after the body of the inner loop for endpoints i and j, where p1
\* is the point the outer iteration read for endpoint i
SnapStep(ws, i, j, p1, tolerance, pid) ==
    IF ShouldSnap(p1, EndpointPoint(ws, j), tolerance)
    THEN SetEndpoint(SetEndpoint(ws, i, AvgPoint(p1, EndpointPoint(ws, j), pid)),
                     j, AvgPoint(p1, EndpointPoint(ws, j), pid))
    ELSE ws

\* where the function that called _snap_corners goes on
AfterSnap == IF caller = "import" THEN "order" ELSE "snap_done"

\* entry: the empty list returns 0; otherwise the endpoints are collected
\* and the first outer iteration reads its point
SnapBegin ==
    /\ pc = "snap"
    /\ walls0' = walls
    /\ snap_calls' = snap_calls + 1
    /\ snapped_count' = 0
    /\ IF walls = <<>>
       THEN /\ pc' = AfterSnap
            /\ UNCHANGED <<snap_i, snap_j, point1>>
       ELSE /\ snap_i' = 1
            /\ snap_j' = 2
            /\ point1' = EndpointPoint(walls, 1)
            /\ pc' = "snap_pair"
    /\ UNCHANGED importVars
    /\ UNCHANGED <<caller, nextId, walls, corner_snap_tolerance, orderVars>>
    /\ UNCHANGED <<typeVars, undoVars, threadVars>>

\* one iteration of the inner loop, and the loop steps that lead to the next
SnapPair ==
    /\ pc = "snap_pair"
    /\ LET n2 == 2 * Len(walls)
           snap == ShouldSnap(point1, EndpointPoint(walls, snap_j), corner_snap_tolerance)
           after == SnapStep(walls, snap_i, snap_j, point1, corner_snap_tolerance, nextId)
       IN  /\ walls' = after
           /\ nextId' = IF snap THEN nextId + 1 ELSE nextId
           /\ snapped_count' = IF snap THEN snapped_count + 1 ELSE snapped_count
           /\ IF snap_j < n2
              THEN /\ snap_j' = snap_j + 1
                   /\ UNCHANGED <<snap_i, point1, pc>>
              ELSE /\ snap_i' = snap_i + 1
                   /\ snap_j' = snap_i + 2
                   /\ point1' = EndpointPoint(after, snap_i + 1)
                   /\ pc' = IF snap_i + 1 < n2 THEN "snap_pair" ELSE "snap_return"
    /\ UNCHANGED importVars
    /\ UNCHANGED <<caller, walls0, corner_snap_tolerance, orderVars, snap_calls>>
    /\ UNCHANGED <<typeVars, undoVars, threadVars>>

\* the return, were the importer to use up its tolerance: the attribute is
\* set to 0 when the pass is over
SnapReturn_UsesUpTolerance ==
    /\ pc = "snap_return"
    /\ pc' = AfterSnap
    /\ corner_snap_tolerance' = 0
    /\ UNCHANGED importVars
    /\ UNCHANGED <<caller, nextId, walls, walls0, orderVars, snapVars>>
    /\ UNCHANGED <<typeVars, undoVars, threadVars>>

\* return snapped_count
SnapReturn ==
    /\ pc = "snap_return"
    /\ pc' = AfterSnap
    /\ UNCHANGED importVars
    /\ UNCHANGED <<caller, nextId, walls, walls0, corner_snap_tolerance, orderVars, snapVars>>
    /\ UNCHANGED <<typeVars, undoVars, threadVars>>

\* the caller runs the reconciler once more on the list it has
SnapAgain ==
    /\ pc = "snap_done"
    /\ snap_calls = 1
    /\ pc' = "snap"
    /\ UNCHANGED importVars
    /\ UNCHANGED <<caller, nextId, walls, walls0, corner_snap_tolerance, orderVars, snapVars>>
    /\ UNCHANGED <<typeVars, undoVars, threadVars>>

----------------------------------------------------------------------------
(* _order_walls_fixed                                                      *)

\* tolerance = 0.1: distance < 0.1in, i.e. 100 * distance^2 < 1in^2, for a
\* whole distance^2
WithinOrderTolerance(p, q) == DistSq(p, q) <= (UnitsPerInch * UnitsPerInch - 1) \div 100

\* closing_distance < 1.0
ClosesLoop(p, q) == DistSq(p, q) < UnitsPerInch * UnitsPerInch

Conn(kind, j) == [endpoint_type |-> kind, wall_idx |-> j]

\* the entries graph[i]['end_connects'] receives for walls j..Len(ws), in order
RECURSIVE EndConnectsFrom(_, _, _)
EndConnectsFrom(ws, i, j) ==
    IF j > Len(ws) THEN <<>>
    ELSE (IF i = j THEN <<>>
          ELSE (IF WithinOrderTolerance(ws[i].end, ws[j].start)
                THEN <<Conn("start", j)>> ELSE <<>>)
               \o (IF WithinOrderTolerance(ws[i].end, ws[j].end)
                   THEN <<Conn("end", j)>> ELSE <<>>))
         \o EndConnectsFrom(ws, i, j + 1)

\* the entries graph[i]['start_connects'] receives for walls j..Len(ws), in order
RECURSIVE StartConnectsFrom(_, _, _)
StartConnectsFrom(ws, i, j) ==
    IF j > Len(ws) THEN <<>>
    ELSE (IF i = j THEN <<>>
          ELSE (IF WithinOrderTolerance(ws[i].start, ws[j].start)
                THEN <<Conn("start", j)>> ELSE <<>>)
               \o (IF WithinOrderTolerance(ws[i].start, ws[j].end)
                   THEN <<Conn("end", j)>> ELSE <<>>))
         \o StartConnectsFrom(ws, i, j + 1)

BuildGraph(ws) ==
    [i \in 1..Len(ws) |->
        [start_connects |-> StartConnectsFrom(ws, i, 1),
         end_connects   |-> EndConnectsFrom(ws, i, 1)]]

\* mutant: the trace follows the start side of the current wall
TraceConnections_StartSide(g, idx) == g[idx].start_connects

\* the walls whose end-successors the trace follows from wall idx
TraceConnections(g, idx) == g[idx].end_connects

\* positions in connections of walls not yet visited
Unvisited(connections, seen) ==
    {k \in 1..Len(connections) : connections[k].wall_idx \notin seen}

\* the for loop without its break: the last connection to an unvisited wall
FirstUnvisited_Last(connections, seen) ==
    connections[CHOOSE k \in Unvisited(connections, seen) :
                    \A m \in Unvisited(connections, seen) : k >= m]

\* the for loop with break: the first connection to an unvisited wall
FirstUnvisited(connections, seen) ==
    connections[CHOOSE k \in Unvisited(connections, seen) :
                    \A m \in Unvisited(connections, seen) : k <= m]

\* mutant: the reversed copy is built with the default thickness of Wall
NextWall_DefaultThickness(w, needs_flip, wid) ==
    IF needs_flip
    THEN Wall(w.end, w.start, Inches(6), w.wall_type, w.height, wid)
    ELSE w

\* the wall appended for input wall w: a reversed copy when needs_flip
NextWall(w, needs_flip, wid) ==
    IF needs_flip
    THEN Wall(w.end, w.start, w.thickness, w.wall_type, w.height, wid)
    ELSE w

\* entry: the early returns, the graph and the first wall of the trace
OrderBegin ==
    /\ pc = "order"
    /\ walls0' = walls
    /\ IF walls = <<>>
       THEN /\ ordered_walls' = <<>>
            /\ order_outcome' = "empty"
            /\ pc' = IF caller = "import" THEN "add_walls" ELSE "done"
            /\ UNCHANGED <<graph, ordered, visited, current_idx>>
       ELSE IF Len(walls) = 1
       THEN /\ ordered_walls' = walls
            /\ order_outcome' = "single"
            /\ pc' = IF caller = "import" THEN "add_walls" ELSE "done"
            /\ UNCHANGED <<graph, ordered, visited, current_idx>>
       ELSE /\ graph' = BuildGraph(walls)
            /\ ordered' = <<walls[1]>>
            /\ visited' = {1}
            /\ current_idx' = 1
            /\ pc' = "order_trace"
            /\ UNCHANGED <<ordered_walls, order_outcome>>
    /\ UNCHANGED importVars
    /\ UNCHANGED <<caller, nextId, walls, corner_snap_tolerance, snapVars>>
    /\ UNCHANGED <<typeVars, undoVars, threadVars>>

\* one iteration of the while loop that finds a next wall
OrderTraceStep ==
    /\ pc = "order_trace"
    /\ Cardinality(visited) < Len(walls)
    /\ LET connections == TraceConnections(graph, current_idx)
       IN  /\ Unvisited(connections, visited) # {}
           /\ LET c == FirstUnvisited(connections, visited)
                  needs_flip == (c.endpoint_type = "end")
              IN  /\ ordered' = Append(ordered,
                                       NextWall(walls[c.wall_idx], needs_flip, nextId))
                  /\ nextId' = IF needs_flip THEN nextId + 1 ELSE nextId
                  /\ visited' = visited \cup {c.wall_idx}
                  /\ current_idx' = c.wall_idx
    /\ UNCHANGED importVars
    /\ UNCHANGED <<pc, caller, walls, walls0, graph, ordered_walls, order_outcome,
                   corner_snap_tolerance, snapVars>>
    /\ UNCHANGED <<typeVars, undoVars, threadVars>>

\* mutant: after the break the partial chain is returned
OrderTraceBreak_ReturnsPartial ==
    /\ pc = "order_trace"
    /\ Cardinality(visited) < Len(walls)
    /\ Unvisited(TraceConnections(graph, current_idx), visited) = {}
    /\ ordered_walls' = ordered
    /\ order_outcome' = "fallback"
    /\ pc' = IF caller = "import" THEN "add_walls" ELSE "done"
    /\ UNCHANGED importVars
    /\ UNCHANGED <<caller, nextId, walls, walls0, graph, ordered, visited, current_idx,
                   corner_snap_tolerance, snapVars>>
    /\ UNCHANGED <<typeVars, undoVars, threadVars>>

\* the iteration that finds no unvisited successor: break, then the length
\* check after the loop returns the input list
OrderTraceBreak ==
    /\ pc = "order_trace"
    /\ Cardinality(visited) < Len(walls)
    /\ Unvisited(TraceConnections(graph, current_idx), visited) = {}
    /\ IF Len(ordered) # Len(walls)
       THEN /\ ordered_walls' = walls
            /\ order_outcome' = "fallback"
       ELSE /\ ordered_walls' = ordered
            /\ order_outcome' = IF ClosesLoop(ordered[Len(ordered)].end, ordered[1].start)
                                THEN "closed" ELSE "open"
    /\ pc' = IF caller = "import" THEN "add_walls" ELSE "done"
    /\ UNCHANGED importVars
    /\ UNCHANGED <<caller, nextId, walls, walls0, graph, ordered, visited, current_idx,
                   corner_snap_tolerance, snapVars>>
    /\ UNCHANGED <<typeVars, undoVars, threadVars>>

\* the return, were an open chain to be given up for the input list
OrderReturn_RequiresClosure ==
    /\ pc = "order_trace"
    /\ Cardinality(visited) >= Len(walls)
    /\ IF Len(ordered) # Len(walls)
          \/ ~ClosesLoop(ordered[Len(ordered)].end, ordered[1].start)
       THEN /\ ordered_walls' = walls
            /\ order_outcome' = "fallback"
       ELSE /\ ordered_walls' = ordered
            /\ order_outcome' = "closed"
    /\ pc' = IF caller = "import" THEN "add_walls" ELSE "done"
    /\ UNCHANGED importVars
    /\ UNCHANGED <<caller, nextId, walls, walls0, graph, ordered, visited, current_idx,
                   corner_snap_tolerance, snapVars>>
    /\ UNCHANGED <<typeVars, undoVars, threadVars>>

\* the loop condition fails: length check, closure check, return
OrderReturn ==
    /\ pc = "order_trace"
    /\ Cardinality(visited) >= Len(walls)
    /\ IF Len(ordered) # Len(walls)
       THEN /\ ordered_walls' = walls
            /\ order_outcome' = "fallback"
       ELSE /\ ordered_walls' = ordered
            /\ order_outcome' = IF ClosesLoop(ordered[Len(ordered)].end, ordered[1].start)
                                THEN "closed" ELSE "open"
    /\ pc' = IF caller = "import" THEN "add_walls" ELSE "done"
    /\ UNCHANGED importVars
    /\ UNCHANGED <<caller, nextId, walls, walls0, graph, ordered, visited, current_idx,
                   corner_snap_tolerance, snapVars>>
    /\ UNCHANGED <<typeVars, undoVars, threadVars>>

----------------------------------------------------------------------------
(* Parsed JSON values, with the Python operations the importer applies     *)
(*                                                                         *)
(* A number of the document is counted in 1/UnitsPerInch, as a length in   *)
(* inches is: the number 1.0 is UnitsPerInch.  Booleans are not among the  *)
(* inputs.  An object is the sequence of its <<key, value>> members.       *)
(* A number that is not zero, yet so small that adding it to 360.0 gives   *)
(* the float 360.0 again (1e-17, say), has n = 0 and its sign as tiny.     *)

JNull == [t |-> "null"]

JNum(n) == [t |-> "num", n |-> n, tiny |-> 0]

\* the number sign * 1e-17
JTiny(sign) == [t |-> "num", n |-> 0, tiny |-> sign]

\* a string and its length
JStr(s, chars) == [t |-> "str", s |-> s, chars |-> chars]

JList(items) == [t |-> "list", items |-> items]

JObj(members) == [t |-> "obj", f |-> members]

\* key in d
Has(j, key) == \E k \in 1..Len(j.f) : j.f[k][1] = key

\* d.get(key, default), for a dict d
Get(j, key, default) ==
    IF Has(j, key)
    THEN j.f[CHOOSE k \in 1..Len(j.f) : j.f[k][1] = key][2]
    ELSE default

IsDict(j) == j.t = "obj"

\* the value can be multiplied by a float and compared with a number
IsNumber(j) == j.t = "num"

\* bool(value)
Truthy(j) ==
    CASE j.t = "null" -> FALSE
      [] j.t = "num"  -> j.n # 0 \/ j.tiny # 0
      [] j.t = "str"  -> j.chars > 0
      [] j.t = "list" -> j.items # <<>>
      [] j.t = "obj"  -> j.f # <<>>

\* len(value) does not raise TypeError
HasLen(j) == j.t \in {"str", "list", "obj"}

\* len(value)
PyLen(j) ==
    CASE j.t = "str"  -> j.chars
      [] j.t = "list" -> Len(j.items)
      [] j.t = "obj"  -> Len(j.f)

\* what a for loop over the value visits: the items of a list, the
\* characters of a string (one-character strings), the keys of a dict
Elements(j) ==
    CASE j.t = "list" -> j.items
      [] j.t = "str"  -> [k \in 1..j.chars |-> JStr("c", 1)]
      [] j.t = "obj"  -> [k \in 1..Len(j.f) |-> JStr(j.f[k][1], 1)]

\* METERS_TO_INCHES = 39.3701, cut to a whole number so that converted
\* lengths stay whole units
METERS_TO_INCHES == 39

\* value * self.scale_factor
ToInches(n) == n * METERS_TO_INCHES

Abs(n) == IF n < 0 THEN -n ELSE n

\* math.sqrt(x * x + z * z), for the vectors whose length is a whole number
VectorLength(vx, vz) ==
    CHOOSE r \in 0..(Abs(vx) + Abs(vz)) : r * r = vx * vx + vz * vz

----------------------------------------------------------------------------
(* _create_walls_from_data                                                 *)

\* the values the body of the try block reads from one wall record
WallDims(rec) == Get(rec, "dimensions", JObj(<<>>))

WallTransform(rec) == Get(rec, "transform", JObj(<<>>))

WallPosition(rec) == Get(WallTransform(rec), "position", JObj(<<>>))

WallMatrix(rec) == Get(WallTransform(rec), "matrix", JNull)

\* matrix[0][0] and matrix[0][2] can be read and multiplied
MatrixRowReadable(matrix) ==
    /\ matrix.t = "list"
    /\ matrix.items[1].t = "list"
    /\ Len(matrix.items[1].items) >= 3
    /\ IsNumber(matrix.items[1].items[1])
    /\ IsNumber(matrix.items[1].items[3])

\* the body of the try block raises no exception for this record
WallRecordOk(rec) ==
    /\ IsDict(rec)
    /\ IsDict(WallDims(rec))
    /\ IsNumber(Get(WallDims(rec), "width", JNum(0)))
    /\ IsNumber(Get(WallDims(rec), "height", JNum(0)))
    /\ IsDict(WallTransform(rec))
    /\ IsDict(WallPosition(rec))
    /\ \A key \in {"x", "y", "z"} : IsNumber(Get(WallPosition(rec), key, JNum(0)))
    /\ Truthy(WallMatrix(rec)) =>
          /\ HasLen(WallMatrix(rec))
          /\ PyLen(WallMatrix(rec)) >= 4 => MatrixRowReadable(WallMatrix(rec))
    /\ IsNumber(Get(WallDims(rec), "thickness", JNum(Inches(6))))

\* the Wall object, were the direction of the matrix taken as it is, without
\* the division by its length
WallFromRecord_Unnormalised(rec, pid) ==
    LET wall_width == ToInches(Get(WallDims(rec), "width", JNum(0)).n)
        wall_height == ToInches(Get(WallDims(rec), "height", JNum(0)).n)
        wall_thickness == Get(WallDims(rec), "thickness", JNum(Inches(6))).n
        pos_x == ToInches(Get(WallPosition(rec), "x", JNum(0)).n)
        pos_z == ToInches(Get(WallPosition(rec), "z", JNum(0)).n)
        matrix == WallMatrix(rec)
        use_matrix == Truthy(matrix) /\ PyLen(matrix) >= 4
        right_x == IF use_matrix THEN matrix.items[1].items[1].n ELSE 0
        right_z == IF use_matrix THEN matrix.items[1].items[3].n ELSE 0
        has_dir == use_matrix /\ (right_x # 0 \/ right_z # 0)
        along_x == IF has_dir THEN (right_x * wall_width) \div (2 * UnitsPerInch)
                   ELSE wall_width \div 2
        along_z == IF has_dir THEN (right_z * wall_width) \div (2 * UnitsPerInch) ELSE 0
    IN  Wall(Point(pos_x - along_x, pos_z - along_z, pid),
             Point(pos_x + along_x, pos_z + along_z, pid + 1),
             IF wall_thickness > 0 THEN wall_thickness ELSE Inches(6),
             "EXTERIOR", wall_height, pid + 2)

\* the Wall object built from a record that raises no exception; its points
\* take the identities pid and pid + 1, the wall pid + 2
WallFromRecord(rec, pid) ==
    LET wall_width == ToInches(Get(WallDims(rec), "width", JNum(0)).n)
        wall_height == ToInches(Get(WallDims(rec), "height", JNum(0)).n)
        wall_thickness == Get(WallDims(rec), "thickness", JNum(Inches(6))).n
        pos_x == ToInches(Get(WallPosition(rec), "x", JNum(0)).n)
        pos_z == ToInches(Get(WallPosition(rec), "z", JNum(0)).n)
        matrix == WallMatrix(rec)
        use_matrix == Truthy(matrix) /\ PyLen(matrix) >= 4
        right_x == IF use_matrix THEN matrix.items[1].items[1].n ELSE 0
        right_z == IF use_matrix THEN matrix.items[1].items[3].n ELSE 0
        \* length > 0.001: any vector but the null vector, in whole units
        has_dir == use_matrix /\ (right_x # 0 \/ right_z # 0)
        length == IF has_dir THEN VectorLength(right_x, right_z) ELSE 1
        \* dir_x * half_width and dir_z * half_width
        along_x == IF has_dir THEN (right_x * wall_width) \div (2 * length)
                   ELSE wall_width \div 2
        along_z == IF has_dir THEN (right_z * wall_width) \div (2 * length) ELSE 0
    IN  Wall(Point(pos_x - along_x, pos_z - along_z, pid),
             Point(pos_x + along_x, pos_z + along_z, pid + 1),
             IF wall_thickness > 0 THEN wall_thickness ELSE Inches(6),
             "EXTERIOR", wall_height, pid + 2)

----------------------------------------------------------------------------
(* import_from_dict                                                        *)

\* FloorPlan(name, floor_level=0, elevation=0.0, ceiling_height)
FloorPlan(ceiling) ==
    [walls |-> <<>>, openings |-> <<>>, rooms |-> <<>>, furniture |-> <<>>,
     fixtures |-> <<>>, ceiling_height |-> ceiling]

\* the local floor_plan before it is assigned
NoFloorPlan == FloorPlan(0)

RoomDims(d) == Get(d, "dimensions", JObj(<<>>))

\* lines 96-99 raise no exception
RoomDimsOk(d) ==
    /\ IsDict(RoomDims(d))
    /\ \A key \in {"width", "height", "length"} : IsNumber(Get(RoomDims(d), key, JNum(0)))

\* how the section of the document under key starts: its value is falsy
\* ("skip"), or len() of it is logged and the loop over it entered ("loop"),
\* or len() raises TypeError ("raise")
SectionStart(d, key) ==
    IF ~Truthy(Get(d, key, JList(<<>>))) THEN "skip"
    ELSE IF HasLen(Get(d, key, JList(<<>>))) THEN "loop"
    ELSE "raise"

\* where import_from_dict goes on once the section before key is done
RECURSIVE SectionFrom(_, _)
SectionFrom(d, key) ==
    IF key = "return" THEN "return"
    ELSE IF SectionStart(d, key) = "raise" THEN "raised"
    ELSE IF SectionStart(d, key) = "loop" THEN key
    ELSE SectionFrom(d, CASE key = "walls"   -> "doors"
                          [] key = "doors"   -> "windows"
                          [] key = "windows" -> "objects"
                          [] key = "objects" -> "return")

\* lines 96-116: the room dimensions, the empty floor plan, the walls section
ImportBegin ==
    /\ pc = "import"
    /\ IF ~RoomDimsOk(data)
       THEN /\ pc' = "raised"
            /\ UNCHANGED floor_plan
       ELSE /\ floor_plan' = FloorPlan(ToInches(Get(RoomDims(data), "height", JNum(0)).n))
            /\ pc' = SectionFrom(data, "walls")
    /\ rec_i' = 1
    /\ UNCHANGED <<data, extracted, caller, nextId, walls, walls0, corner_snap_tolerance,
                   orderVars, snapVars>>
    /\ UNCHANGED <<typeVars, undoVars, threadVars>>

\* _create_walls_from_data, were the except clause to end the loop
CreateWall_StopsAtMalformed ==
    /\ pc = "walls"
    /\ LET records == Elements(Get(data, "walls", JList(<<>>)))
           rec == records[rec_i]
           made == IF WallRecordOk(rec)
                   THEN Append(walls, WallFromRecord(rec, nextId))
                   ELSE walls
       IN  /\ walls' = made
           /\ nextId' = IF WallRecordOk(rec) THEN nextId + 3 ELSE nextId
           /\ IF rec_i < Len(records) /\ WallRecordOk(rec)
              THEN /\ rec_i' = rec_i + 1
                   /\ UNCHANGED <<pc, extracted>>
              ELSE /\ rec_i' = 1
                   /\ extracted' = made
                   /\ pc' = "snap"
    /\ UNCHANGED <<data, floor_plan, caller, walls0, corner_snap_tolerance,
                   orderVars, snapVars>>
    /\ UNCHANGED <<typeVars, undoVars, threadVars>>

\* one iteration of the loop of _create_walls_from_data; after the last one
\* the list is returned and handed to _snap_corners
CreateWall ==
    /\ pc = "walls"
    /\ LET records == Elements(Get(data, "walls", JList(<<>>)))
           rec == records[rec_i]
           made == IF WallRecordOk(rec)
                   THEN Append(walls, WallFromRecord(rec, nextId))
                   ELSE walls
       IN  /\ walls' = made
           /\ nextId' = IF WallRecordOk(rec) THEN nextId + 3 ELSE nextId
           /\ IF rec_i < Len(records)
              THEN /\ rec_i' = rec_i + 1
                   /\ UNCHANGED <<pc, extracted>>
              ELSE /\ rec_i' = 1
                   /\ extracted' = made
                   /\ pc' = "snap"
    /\ UNCHANGED <<data, floor_plan, caller, walls0, corner_snap_tolerance,
                   orderVars, snapVars>>
    /\ UNCHANGED <<typeVars, undoVars, threadVars>>

\* the loop of lines 130-131, were it to run over temp_walls
AddWalls_InputOrder ==
    /\ pc = "add_walls"
    /\ floor_plan' = [floor_plan EXCEPT !.walls = floor_plan.walls \o walls]
    /\ pc' = SectionFrom(data, "doors")
    /\ rec_i' = 1
    /\ UNCHANGED <<data, extracted, caller, nextId, walls, walls0, corner_snap_tolerance,
                   orderVars, snapVars>>
    /\ UNCHANGED <<typeVars, undoVars, threadVars>>

\* lines 128-131: floor_plan.add_wall for each ordered wall, then the doors section
AddWalls ==
    /\ pc = "add_walls"
    /\ floor_plan' = [floor_plan EXCEPT !.walls = floor_plan.walls \o ordered_walls]
    /\ pc' = SectionFrom(data, "doors")
    /\ rec_i' = 1
    /\ UNCHANGED <<data, extracted, caller, nextId, walls, walls0, corner_snap_tolerance,
                   orderVars, snapVars>>
    /\ UNCHANGED <<typeVars, undoVars, threadVars>>

\* return floor_plan
ImportReturn ==
    /\ pc = "return"
    /\ pc' = "done"
    /\ UNCHANGED <<data, floor_plan, rec_i, extracted, caller, nextId, walls, walls0,
                   corner_snap_tolerance, orderVars, snapVars>>
    /\ UNCHANGED <<typeVars, undoVars, threadVars>>

\* no import is running: the function under study is called on its own
NotImporting ==
    /\ data = JObj(<<>>)
    /\ floor_plan = NoFloorPlan
    /\ rec_i = 0
    /\ extracted = <<>>

\* no width is being classified: door_type and window_type are not assigned
NotClassifying ==
    /\ door_width = 0
    /\ door_type = "none"
    /\ window_width = 0
    /\ window_type = "none"

\* no UndoStack is in use
NotEditing ==
    /\ commands = <<>>
    /\ current_index = -1
    /\ max_size = 0
    /\ calls = <<>>

\* the call is the only one: no other thread has a call of its own
SingleThread ==
    /\ running = "main"
    /\ parked = <<>>

----------------------------------------------------------------------------
(* _import_doors, _import_windows and the nearest wall                     *)

\* the number n.0 of the code or of the document
Whole(n) == n * UnitsPerInch

\* a / b < c / d, for a, c >= 0 and b, d > 0, without forming products
RECURSIVE RatLess(_, _, _, _)
RatLess(a, b, c, d) ==
    IF a \div b # c \div d THEN a \div b < c \div d
    ELSE IF c % d = 0 THEN FALSE
    ELSE IF a % b = 0 THEN TRUE
    ELSE RatLess(d, c % d, b, a % b)

RECURSIVE GCD(_, _)
GCD(a, b) == IF b = 0 THEN a ELSE GCD(b, a % b)

\* the fraction a / b in lowest terms, for a >= 0 and b > 0
Fraction(a, b) == [num |-> a \div GCD(a, b), den |-> b \div GCD(a, b)]

\* wall_length_sq
WallLengthSq(w) == DistSq(w.start, w.end)

\* wall_length_sq < 0.001, i.e. 1000 * wall_length_sq < 1in^2
IsPointWall(w) == WallLengthSq(w) <= (UnitsPerInch * UnitsPerInch - 1) \div 1000

\* point_vec . wall_vec, the numerator of t
Projection(w, p) ==
    (p.x - w.start.x) * (w.end.x - w.start.x) + (p.y - w.start.y) * (w.end.y - w.start.y)

\* point_vec x wall_vec
Cross(w, p) ==
    (p.x - w.start.x) * (w.end.y - w.start.y) - (p.y - w.start.y) * (w.end.x - w.start.x)

\* the greatest common divisor of acc and the coordinates of walls k..Len(ws)
RECURSIVE WallsGCD(_, _, _)
WallsGCD(ws, k, acc) ==
    IF k > Len(ws) THEN acc
    ELSE WallsGCD(ws, k + 1,
                  GCD(GCD(GCD(GCD(acc, Abs(ws[k].start.x)), Abs(ws[k].start.y)),
                          Abs(ws[k].end.x)), Abs(ws[k].end.y)))

\* a length that divides every coordinate of the walls and of the point:
\* distances are compared in multiples of it, which keeps the order
CommonFactor(ws, p) ==
    IF WallsGCD(ws, 1, GCD(Abs(p.x), Abs(p.y))) = 0 THEN 1
    ELSE WallsGCD(ws, 1, GCD(Abs(p.x), Abs(p.y)))

\* _point_to_wall_distance, squared, as a fraction, in multiples of g
PointToWallDistanceSq(p, w, g) ==
    IF IsPointWall(w) THEN [num |-> DistSq(p, w.start) \div (g * g), den |-> 1]
    ELSE IF Projection(w, p) <= 0 THEN [num |-> DistSq(p, w.start) \div (g * g), den |-> 1]
    ELSE IF Projection(w, p) >= WallLengthSq(w)
    THEN [num |-> DistSq(p, w.end) \div (g * g), den |-> 1]
    ELSE [num |-> (Cross(w, p) \div (g * g)) * (Cross(w, p) \div (g * g)),
          den |-> WallLengthSq(w) \div (g * g)]

Nearer(d1, d2) == RatLess(d1.num, d1.den, d2.num, d2.den)

\* _find_nearest_wall, were the comparison distance <= min_distance: the
\* index of the last wall at the least distance
FindNearestWall_LastNearest(ws, p) ==
    LET g == CommonFactor(ws, p)
    IN  CHOOSE k \in 1..Len(ws) :
            /\ \A j \in 1..(k - 1) :
                  ~Nearer(PointToWallDistanceSq(p, ws[j], g), PointToWallDistanceSq(p, ws[k], g))
            /\ \A j \in (k + 1)..Len(ws) :
                  Nearer(PointToWallDistanceSq(p, ws[k], g), PointToWallDistanceSq(p, ws[j], g))

\* _find_nearest_wall, for a floor plan with walls: the index of the first
\* wall at the least distance
FindNearestWall(ws, p) ==
    LET g == CommonFactor(ws, p)
    IN  CHOOSE k \in 1..Len(ws) :
            /\ \A j \in 1..(k - 1) :
                  Nearer(PointToWallDistanceSq(p, ws[k], g), PointToWallDistanceSq(p, ws[j], g))
            /\ \A j \in (k + 1)..Len(ws) :
                  ~Nearer(PointToWallDistanceSq(p, ws[j], g), PointToWallDistanceSq(p, ws[k], g))

\* _calculate_position_on_wall, were t not clamped from above
CalculatePositionOnWall_Unclamped(w, p) ==
    IF IsPointWall(w) THEN Fraction(1, 2)
    ELSE IF Projection(w, p) <= 0 THEN Fraction(0, 1)
    ELSE Fraction(Projection(w, p), WallLengthSq(w))

\* _calculate_position_on_wall
CalculatePositionOnWall(w, p) ==
    IF IsPointWall(w) THEN Fraction(1, 2)
    ELSE IF Projection(w, p) <= 0 THEN Fraction(0, 1)
    ELSE IF Projection(w, p) >= WallLengthSq(w) THEN Fraction(1, 1)
    ELSE Fraction(Projection(w, p), WallLengthSq(w))

RecDims(rec) == Get(rec, "dimensions", JObj(<<>>))

RecTransform(rec) == Get(rec, "transform", JObj(<<>>))

RecPosition(rec) == Get(RecTransform(rec), "position", JObj(<<>>))

\* the try block reads width, height and position of a door or window
\* record without an exception
OpeningRecordOk(rec, default_width, default_height) ==
    /\ IsDict(rec)
    /\ IsDict(RecDims(rec))
    /\ IsNumber(Get(RecDims(rec), "width", JNum(default_width)))
    /\ IsNumber(Get(RecDims(rec), "height", JNum(default_height)))
    /\ IsDict(RecTransform(rec))
    /\ IsDict(RecPosition(rec))
    /\ IsNumber(Get(RecPosition(rec), "x", JNum(0)))
    /\ IsNumber(Get(RecPosition(rec), "z", JNum(0)))

\* door_point, window_point
RecPoint(rec) ==
    Point(ToInches(Get(RecPosition(rec), "x", JNum(0)).n),
          ToInches(Get(RecPosition(rec), "z", JNum(0)).n), 0)

\* door_type, were the comparison door_width >= 60
DoorType_AtLeast60(width) == IF width >= Inches(60) THEN "DOOR_DOUBLE" ELSE "DOOR_SINGLE"

\* door_type
DoorType(width) == IF width > Inches(60) THEN "DOOR_DOUBLE" ELSE "DOOR_SINGLE"

\* window_type
WindowType(width) ==
    IF width > Inches(72) THEN "WINDOW_PICTURE"
    ELSE IF width > Inches(48) THEN "WINDOW_DOUBLE"
    ELSE "WINDOW_SINGLE"

\* lines 430-433, on their own: the door type is chosen from door_width
ClassifyDoor ==
    /\ pc = "classify"
    /\ door_type = "none"
    /\ door_type' = DoorType(door_width)
    /\ UNCHANGED <<door_width, window_width, window_type>>
    /\ UNCHANGED <<undoVars, threadVars>>
    /\ UNCHANGED <<pc, caller, nextId, walls, walls0, corner_snap_tolerance, orderVars,
                   snapVars, importVars>>

\* lines 480-485, on their own: the window type is chosen from window_width
ClassifyWindow ==
    /\ pc = "classify"
    /\ window_type = "none"
    /\ window_type' = WindowType(window_width)
    /\ UNCHANGED <<door_width, door_type, window_width>>
    /\ UNCHANGED <<undoVars, threadVars>>
    /\ UNCHANGED <<pc, caller, nextId, walls, walls0, corner_snap_tolerance, orderVars,
                   snapVars, importVars>>

\* Opening(wall_id, position, width, height, opening_type)
Opening(wall_id, position, width, height, opening_type, oid) ==
    [wall_id |-> wall_id, position |-> position, width |-> width, height |-> height,
     opening_type |-> opening_type, id |-> oid]

\* FloorPlan.get_wall finds a wall
HasWall(fp, wall_id) == \E k \in 1..Len(fp.walls) : fp.walls[k].id = wall_id

\* the try block, were an opening made and added without a wall to bind to
WithOpening_Unbound(fp, rec, is_door, oid) ==
    LET default_width == Whole(36)
        default_height == IF is_door THEN Whole(80) ELSE Whole(48)
    IN  IF ~OpeningRecordOk(rec, default_width, default_height) THEN fp
        ELSE LET width == ToInches(Get(RecDims(rec), "width", JNum(default_width)).n)
                 height == ToInches(Get(RecDims(rec), "height", JNum(default_height)).n)
                 opening ==
                     IF fp.walls = <<>>
                     THEN Opening(0, Fraction(1, 2), width, height,
                                  IF is_door THEN DoorType(width) ELSE WindowType(width), oid)
                     ELSE LET nearest_wall ==
                                  fp.walls[FindNearestWall(fp.walls, RecPoint(rec))]
                          IN  Opening(nearest_wall.id,
                                      CalculatePositionOnWall(nearest_wall, RecPoint(rec)),
                                      width, height,
                                      IF is_door THEN DoorType(width) ELSE WindowType(width),
                                      oid)
             IN  [fp EXCEPT !.openings = Append(fp.openings, opening)]

\* the floor plan after the try block for one door or window record;
\* is_door tells which defaults and which types apply
WithOpening(fp, rec, is_door, oid) ==
    LET default_width == Whole(36)
        default_height == IF is_door THEN Whole(80) ELSE Whole(48)
    IN  IF ~OpeningRecordOk(rec, default_width, default_height) THEN fp
        ELSE IF fp.walls = <<>> THEN fp
        ELSE LET width == ToInches(Get(RecDims(rec), "width", JNum(default_width)).n)
                 height == ToInches(Get(RecDims(rec), "height", JNum(default_height)).n)
                 nearest_wall == fp.walls[FindNearestWall(fp.walls, RecPoint(rec))]
                 opening == Opening(nearest_wall.id,
                                    CalculatePositionOnWall(nearest_wall, RecPoint(rec)),
                                    width, height,
                                    IF is_door THEN DoorType(width) ELSE WindowType(width),
                                    oid)
             IN  IF HasWall(fp, opening.wall_id)
                 THEN [fp EXCEPT !.openings = Append(fp.openings, opening)]
                 ELSE fp

\* one iteration of the loop of _import_doors; after the last one the
\* windows section
ImportDoor ==
    /\ pc = "doors"
    /\ LET records == Elements(Get(data, "doors", JList(<<>>)))
       IN  /\ floor_plan' = WithOpening(floor_plan, records[rec_i], TRUE, nextId)
           /\ nextId' = IF floor_plan' # floor_plan THEN nextId + 1 ELSE nextId
           /\ IF rec_i < Len(records)
              THEN /\ rec_i' = rec_i + 1
                   /\ UNCHANGED pc
              ELSE /\ rec_i' = 1
                   /\ pc' = SectionFrom(data, "windows")
    /\ UNCHANGED <<data, extracted, caller, walls, walls0, corner_snap_tolerance,
                   orderVars, snapVars>>
    /\ UNCHANGED <<typeVars, undoVars, threadVars>>

\* one iteration of the loop of _import_windows; after the last one the
\* objects section
ImportWindow ==
    /\ pc = "windows"
    /\ LET records == Elements(Get(data, "windows", JList(<<>>)))
       IN  /\ floor_plan' = WithOpening(floor_plan, records[rec_i], FALSE, nextId)
           /\ nextId' = IF floor_plan' # floor_plan THEN nextId + 1 ELSE nextId
           /\ IF rec_i < Len(records)
              THEN /\ rec_i' = rec_i + 1
                   /\ UNCHANGED pc
              ELSE /\ rec_i' = 1
                   /\ pc' = SectionFrom(data, "objects")
    /\ UNCHANGED <<data, extracted, caller, walls, walls0, corner_snap_tolerance,
                   orderVars, snapVars>>
    /\ UNCHANGED <<typeVars, undoVars, threadVars>>

----------------------------------------------------------------------------
(* _extract_rotation_from_matrix and _import_objects                       *)

\* the members of the enumeration FurnitureType
FurnitureType ==
    {"BED_SINGLE", "BED_DOUBLE", "BED_QUEEN", "BED_KING", "SOFA", "LOVESEAT", "CHAIR",
     "ARMCHAIR", "TABLE_DINING", "TABLE_COFFEE", "TABLE_SIDE", "DESK", "DRESSER",
     "NIGHTSTAND", "BOOKSHELF", "CABINET", "WARDROBE", "TV_STAND"}

\* the members of the enumeration FixtureType
FixtureType ==
    {"TOILET", "SINK", "SINK_DOUBLE", "BATHTUB", "SHOWER", "SHOWER_CORNER", "VANITY",
     "REFRIGERATOR", "STOVE", "OVEN", "DISHWASHER", "MICROWAVE", "SINK_KITCHEN",
     "WASHER", "DRYER", "WATER_HEATER", "FURNACE", "AC_UNIT"}

FURNITURE_MAPPING ==
    [table |-> "TABLE_DINING", chair |-> "CHAIR", sofa |-> "SOFA", bed |-> "BED_QUEEN",
     storage |-> "CABINET", desk |-> "DESK"]

FIXTURE_MAPPING ==
    [toilet |-> "TOILET", sink |-> "SINK", bathtub |-> "BATHTUB", shower |-> "SHOWER",
     refrigerator |-> "REFRIGERATOR", stove |-> "STOVE", oven |-> "OVEN",
     dishwasher |-> "DISHWASHER", washer |-> "WASHER", dryer |-> "DRYER"]

\* str.lower, on the category strings of the inputs
Lower(s) ==
    CASE s = "Chair" -> "chair"
      [] s = "SINK"  -> "sink"
      [] s = "Bed"   -> "bed"
      [] OTHER       -> s

\* str.title, on the keys of the two mappings
Title(s) ==
    CASE s = "table" -> "Table" [] s = "chair" -> "Chair" [] s = "sofa" -> "Sofa"
      [] s = "bed" -> "Bed" [] s = "storage" -> "Storage" [] s = "desk" -> "Desk"
      [] s = "toilet" -> "Toilet" [] s = "sink" -> "Sink" [] s = "bathtub" -> "Bathtub"
      [] s = "shower" -> "Shower" [] s = "refrigerator" -> "Refrigerator"
      [] s = "stove" -> "Stove" [] s = "oven" -> "Oven"
      [] s = "dishwasher" -> "Dishwasher" [] s = "washer" -> "Washer"
      [] s = "dryer" -> "Dryer"

\* math.degrees: 180 / pi = 57.2958, cut to a whole number
RADIANS_TO_DEGREES == 57

\* math.degrees(math.atan2(y, x)), for the eight directions of the compass
\* and the null vector
Atan2Degrees(y, x) ==
    CASE y = 0 /\ x >= 0     -> 0
      [] y > 0 /\ x = y      -> Whole(45)
      [] y > 0 /\ x = 0      -> Whole(90)
      [] y > 0 /\ x = -y     -> Whole(135)
      [] y = 0 /\ x < 0      -> Whole(180)
      [] y < 0 /\ x = y      -> -Whole(135)
      [] y < 0 /\ x = 0      -> -Whole(90)
      [] y < 0 /\ x = -y     -> -Whole(45)

RotationData(transform) == Get(transform, "rotation", JNull)

\* the explicit yaw would be used only when it is truthy
UsesYawDegrees_Truthy(transform) ==
    /\ Truthy(RotationData(transform))
    /\ Truthy(Get(RotationData(transform), "yaw_degrees", JNull))

\* the explicit rotation field is used: it is truthy and holds a yaw
UsesYawDegrees(transform) ==
    /\ Truthy(RotationData(transform))
    /\ Get(RotationData(transform), "yaw_degrees", JNull) # JNull

UsesYawRadians(transform) ==
    /\ Truthy(RotationData(transform))
    /\ Get(RotationData(transform), "yaw_degrees", JNull) = JNull
    /\ Get(RotationData(transform), "yaw_radians", JNull) # JNull

RotationMatrix(transform) == Get(transform, "matrix", JNull)

\* matrix[0], for a non-empty list or string
FirstRow(matrix) == Elements(matrix)[1]

\* the guard before the try block lets the matrix through: it is non-empty
\* and its first row has three entries or more
MatrixHasRow(matrix) == Truthy(matrix) /\ PyLen(FirstRow(matrix)) >= 3

\* _extract_rotation_from_matrix returns without an exception that reaches
\* the caller
RotationOk(transform) ==
    /\ Truthy(RotationData(transform)) => IsDict(RotationData(transform))
    /\ UsesYawDegrees(transform) =>
          IsNumber(Get(RotationData(transform), "yaw_degrees", JNull))
    /\ UsesYawRadians(transform) =>
          IsNumber(Get(RotationData(transform), "yaw_radians", JNull))
    /\ (~UsesYawDegrees(transform) /\ ~UsesYawRadians(transform)
        /\ Truthy(RotationMatrix(transform))) =>
          \* len(matrix), matrix[0], len(matrix[0]); matrix[0][0] of a dict
          \* raises KeyError, which the try block does not catch
          /\ RotationMatrix(transform).t \in {"list", "str"}
          /\ HasLen(FirstRow(RotationMatrix(transform)))
          /\ PyLen(FirstRow(RotationMatrix(transform))) >= 3
                => FirstRow(RotationMatrix(transform)).t # "obj"

\* yaw % 360, and the branch for a negative remainder, which % never leaves:
\* the remainder takes the sign of 360, and for a negative yaw nearer 0 than
\* half the spacing of the floats at 360 it is the sum yaw + 360.0, rounded
\* to 360.0
PyMod360(n, tiny) == IF n = 0 /\ tiny < 0 THEN Whole(360) ELSE n % Whole(360)

\* the angle _extract_rotation_from_matrix returns
RotationDegrees(transform) ==
    IF UsesYawDegrees(transform)
    THEN PyMod360(Get(RotationData(transform), "yaw_degrees", JNull).n,
                  Get(RotationData(transform), "yaw_degrees", JNull).tiny)
    ELSE IF UsesYawRadians(transform)
    THEN PyMod360(Get(RotationData(transform), "yaw_radians", JNull).n * RADIANS_TO_DEGREES,
                  Get(RotationData(transform), "yaw_radians", JNull).tiny)
    ELSE IF ~MatrixHasRow(RotationMatrix(transform)) THEN 0
    ELSE LET row == FirstRow(RotationMatrix(transform))
         IN  \* TypeError inside the try block: return 0.0
             IF row.t # "list" \/ ~IsNumber(row.items[1]) \/ ~IsNumber(row.items[3])
             THEN 0
             \* atan2(-right_z, right_x) is negative and nearer 0 than half the
             \* spacing of the floats at 360: angle_degrees + 360 is 360.0
             ELSE IF row.items[3].tiny > 0 /\ row.items[3].n = 0 /\ row.items[1].n > 0
             THEN Whole(360)
             ELSE LET angle_degrees == Atan2Degrees(-row.items[3].n, row.items[1].n)
                  IN  IF angle_degrees < 0 THEN angle_degrees + Whole(360)
                      ELSE angle_degrees

\* the try block of _import_objects raises no exception for this record
ObjectRecordOk(rec) ==
    /\ IsDict(rec)
    /\ Get(rec, "category", JStr("", 0)).t = "str"
    /\ IsDict(RecDims(rec))
    /\ IsNumber(Get(RecDims(rec), "width", JNum(Whole(24))))
    /\ IsNumber(Get(RecDims(rec), "height", JNum(Whole(30))))
    /\ IsNumber(Get(RecDims(rec), "depth", JNum(Whole(24))))
    /\ IsDict(RecTransform(rec))
    /\ IsDict(RecPosition(rec))
    /\ IsNumber(Get(RecPosition(rec), "x", JNum(0)))
    /\ IsNumber(Get(RecPosition(rec), "z", JNum(0)))
    /\ RotationOk(RecTransform(rec))

\* Fixture(position, width, depth, fixture_type, rotation, name)
Fixture(rec, fixture_type, pid) ==
    [position |-> [RecPoint(rec) EXCEPT !.id = pid],
     width |-> ToInches(Get(RecDims(rec), "width", JNum(Whole(24))).n),
     depth |-> ToInches(Get(RecDims(rec), "depth", JNum(Whole(24))).n),
     fixture_type |-> fixture_type,
     rotation |-> RotationDegrees(RecTransform(rec)),
     name |-> Title(Lower(Get(rec, "category", JStr("", 0)).s)),
     id |-> pid + 1]

\* Furniture(position, width, depth, furniture_type, rotation, name)
Furniture(rec, furniture_type, pid) ==
    [position |-> [RecPoint(rec) EXCEPT !.id = pid],
     width |-> ToInches(Get(RecDims(rec), "width", JNum(Whole(24))).n),
     depth |-> ToInches(Get(RecDims(rec), "depth", JNum(Whole(24))).n),
     furniture_type |-> furniture_type,
     rotation |-> RotationDegrees(RecTransform(rec)),
     name |-> Title(Lower(Get(rec, "category", JStr("", 0)).s)),
     id |-> pid + 1]

\* the try block, were the category looked up as it is written
WithObject_CaseSensitive(fp, rec, pid) ==
    IF ~ObjectRecordOk(rec) THEN fp
    ELSE LET category == Get(rec, "category", JStr("", 0)).s
         IN  IF category \in DOMAIN FIXTURE_MAPPING
             THEN [fp EXCEPT !.fixtures =
                      Append(fp.fixtures, Fixture(rec, FIXTURE_MAPPING[category], pid))]
             ELSE IF category \in DOMAIN FURNITURE_MAPPING
             THEN [fp EXCEPT !.furniture =
                      Append(fp.furniture, Furniture(rec, FURNITURE_MAPPING[category], pid))]
             ELSE fp

\* the floor plan after the try block for one object record
WithObject(fp, rec, pid) ==
    IF ~ObjectRecordOk(rec) THEN fp
    ELSE LET category == Lower(Get(rec, "category", JStr("", 0)).s)
         IN  IF category \in DOMAIN FIXTURE_MAPPING
             THEN [fp EXCEPT !.fixtures =
                      Append(fp.fixtures, Fixture(rec, FIXTURE_MAPPING[category], pid))]
             ELSE IF category \in DOMAIN FURNITURE_MAPPING
             THEN [fp EXCEPT !.furniture =
                      Append(fp.furniture, Furniture(rec, FURNITURE_MAPPING[category], pid))]
             ELSE fp

\* one iteration of the loop of _import_objects; after the last one the return
ImportObject ==
    /\ pc = "objects"
    /\ LET records == Elements(Get(data, "objects", JList(<<>>)))
       IN  /\ floor_plan' = WithObject(floor_plan, records[rec_i], nextId)
           /\ nextId' = IF floor_plan' # floor_plan THEN nextId + 2 ELSE nextId
           /\ IF rec_i < Len(records)
              THEN /\ rec_i' = rec_i + 1
                   /\ UNCHANGED pc
              ELSE /\ rec_i' = 1
                   /\ pc' = "return"
    /\ UNCHANGED <<data, extracted, caller, walls, walls0, corner_snap_tolerance,
                   orderVars, snapVars>>
    /\ UNCHANGED <<typeVars, undoVars, threadVars>>

----------------------------------------------------------------------------
(* Inputs of the sequencer                                                 *)

MaxWalls == 3

\* corners: three 2in apart, and one within 0.1in of the first
OrderCorners == {<<0, 0>>, <<4, 4>>, <<Inches(2), 0>>, <<0, Inches(2)>>}

\* input wall k from corner a to corner b, with its own points and a
\* thickness that tells it from the others
InputWall(k, a, b) ==
    Wall(Point(a[1], a[2], 3 * k - 2), Point(b[1], b[2], 3 * k - 1),
         Inches(3 + k), "EXTERIOR", Inches(96), 3 * k)

\* two walls by way of a corner that is apart from all those above
OrderDetour ==
    {<<<<Inches(2), 0>>, <<Inches(2), Inches(2)>>>>,
     <<<<Inches(2), Inches(2)>>, <<0, Inches(2)>>>>}

OrderInputs ==
    UNION {[1..n -> (OrderCorners \X OrderCorners) \cup OrderDetour] : n \in 0..MaxWalls}

InitOrder ==
    /\ \E inp \in OrderInputs :
          walls = [k \in 1..Len(inp) |-> InputWall(k, inp[k][1], inp[k][2])]
    /\ walls0 = walls
    /\ nextId = 3 * Len(walls) + 1
    /\ pc = "order"
    /\ caller = "direct"
    /\ graph = <<>>
    /\ ordered = <<>>
    /\ visited = {}
    /\ current_idx = 0
    /\ ordered_walls = <<>>
    /\ order_outcome = "none"
    /\ corner_snap_tolerance = DefaultSnapTolerance
    /\ snap_i = 0
    /\ snap_j = 0
    /\ point1 = NoPoint
    /\ snapped_count = 0
    /\ snap_calls = 0
    /\ NotImporting
    /\ NotClassifying
    /\ NotEditing
    /\ SingleThread

NextOrder == OrderBegin \/ OrderTraceStep \/ OrderTraceBreak \/ OrderReturn

SpecOrder == InitOrder /\ [][NextOrder]_vars

----------------------------------------------------------------------------
(* Inputs of the reconciler                                                *)

MaxSnapWalls == 2

\* endpoint coordinates: a grid whose step, 1024 units, can be halved ten times
SnapXs == {0, 1024, 2048}

SnapYs == {0, 2048}

SnapPlaces == SnapXs \X SnapYs

\* tolerances: 1280 units reach the next grid point of a row; 2176 units reach
\* two grid points along a row or a column but not the knight's move
SnapTolerances == {1280, 2176}

SnapInputs ==
    UNION {[1..n -> SnapPlaces \X SnapPlaces] : n \in 0..MaxSnapWalls}

InitSnap ==
    /\ \E inp \in SnapInputs :
          walls = [k \in 1..Len(inp) |-> InputWall(k, inp[k][1], inp[k][2])]
    /\ walls0 = walls
    /\ nextId = 3 * Len(walls) + 1
    /\ corner_snap_tolerance \in SnapTolerances
    /\ pc = "snap"
    /\ caller = "direct"
    /\ graph = <<>>
    /\ ordered = <<>>
    /\ visited = {}
    /\ current_idx = 0
    /\ ordered_walls = <<>>
    /\ order_outcome = "none"
    /\ snap_i = 0
    /\ snap_j = 0
    /\ point1 = NoPoint
    /\ snapped_count = 0
    /\ snap_calls = 0
    /\ NotImporting
    /\ NotClassifying
    /\ NotEditing
    /\ SingleThread

NextSnap == SnapBegin \/ SnapPair \/ SnapReturn \/ SnapAgain

SpecSnap == InitSnap /\ [][NextSnap]_vars

\* every midpoint the reconciler computes is a whole number of units
MidpointsExact ==
    [][(pc = "snap_pair"
        /\ ShouldSnap(point1, EndpointPoint(walls, snap_j), corner_snap_tolerance))
       => /\ (point1.x + EndpointPoint(walls, snap_j).x) % 2 = 0
          /\ (point1.y + EndpointPoint(walls, snap_j).y) % 2 = 0]_vars

----------------------------------------------------------------------------
(* Inputs of the import: scans of a rectangular room                       *)

Sign(n) == IF n > 0 THEN 1 ELSE IF n < 0 THEN -1 ELSE 0

\* a 4x4 transform whose row 0 holds the direction (dir_x, 0, dir_z, 0)
MatrixOf(dir_x, dir_z) ==
    JList(<<JList(<<JNum(dir_x), JNum(0), JNum(dir_z), JNum(0)>>),
            JList(<<JNum(0), JNum(UnitsPerInch), JNum(0), JNum(0)>>),
            JList(<<JNum(-dir_z), JNum(0), JNum(dir_x), JNum(0)>>),
            JList(<<JNum(0), JNum(0), JNum(0), JNum(UnitsPerInch)>>)>>)

\* a wall record: width and height, centre (x, z), direction (dir_x, dir_z)
WallRecord(w, h, x, z, dir_x, dir_z) ==
    JObj(<< <<"dimensions", JObj(<< <<"width", JNum(w)>>, <<"height", JNum(h)>> >>)>>,
            <<"transform",
              JObj(<< <<"position",
                        JObj(<< <<"x", JNum(x)>>, <<"y", JNum(0)>>, <<"z", JNum(z)>> >>)>>,
                      <<"matrix", MatrixOf(dir_x, dir_z)>> >>)>> >>)

\* the record of the axis-parallel wall that runs from a to b
RecordBetween(a, b, h) ==
    WallRecord(Abs(b[1] - a[1]) + Abs(b[2] - a[2]), h,
               (a[1] + b[1]) \div 2, (a[2] + b[2]) \div 2,
               Sign(b[1] - a[1]) * UnitsPerInch, Sign(b[2] - a[2]) * UnitsPerInch)

\* a length of n/8 in the document
Eighths(n) == (n * UnitsPerInch) \div 8

\* the room: 0.75 by 0.625, and 2.5 high
RoomWidth == Eighths(6)

RoomLength == Eighths(5)

RoomHeight == Eighths(20)

\* the tolerance of the importer: the default, and 24.25in
RoomTolerances == {DefaultSnapTolerance, (97 * UnitsPerInch) \div 4}

\* how a scan departs from the room: the first wall ends a_end short of its
\* corner and the second b_end short of its corner; the fourth wall lies
\* d_out outside the room, starts d_over beyond its corner and ends d_short
\* short of its corner
RoomScans ==
    [a_end : {0, Eighths(1)}, b_end : {0, Eighths(1)},
     d_out : {0, Eighths(4)}, d_over : {0, Eighths(1)}, d_short : {0, Eighths(1)}]

\* the four records, running the same way round the room
RoomRecords(g) ==
    <<RecordBetween(<<0, 0>>, <<RoomWidth - g.a_end, 0>>, RoomHeight),
      RecordBetween(<<RoomWidth, 0>>, <<RoomWidth, RoomLength - g.b_end>>, RoomHeight),
      RecordBetween(<<RoomWidth, RoomLength>>, <<0, RoomLength>>, RoomHeight),
      RecordBetween(<<-g.d_out, RoomLength + g.d_over>>, <<-g.d_out, g.d_short>>,
                    RoomHeight)>>

\* the orders in which n records can be listed
Listings(n) == {p \in [1..n -> 1..n] : \A a, b \in 1..n : p[a] = p[b] => a = b}

RoomDocument(g, p) ==
    JObj(<< <<"dimensions", JObj(<< <<"width", JNum(RoomWidth)>>,
                                    <<"height", JNum(RoomHeight)>>,
                                    <<"length", JNum(RoomLength)>> >>)>>,
            <<"walls", JList([k \in 1..4 |-> RoomRecords(g)[p[k]]])>> >>)

\* import_from_dict is called; no local is assigned yet
ImportCalled ==
    /\ pc = "import"
    /\ caller = "import"
    /\ nextId = 1
    /\ walls = <<>>
    /\ walls0 = <<>>
    /\ extracted = <<>>
    /\ floor_plan = NoFloorPlan
    /\ rec_i = 0
    /\ graph = <<>>
    /\ ordered = <<>>
    /\ visited = {}
    /\ current_idx = 0
    /\ ordered_walls = <<>>
    /\ order_outcome = "none"
    /\ snap_i = 0
    /\ snap_j = 0
    /\ point1 = NoPoint
    /\ snapped_count = 0
    /\ snap_calls = 0
    /\ NotClassifying

InitRoom ==
    /\ \E g \in RoomScans : \E p \in Listings(4) : data = RoomDocument(g, p)
    /\ corner_snap_tolerance \in RoomTolerances
    /\ ImportCalled
    /\ NotEditing
    /\ SingleThread

NextRoom ==
    \/ ImportBegin \/ CreateWall
    \/ SnapBegin \/ SnapPair \/ SnapReturn
    \/ OrderBegin \/ OrderTraceStep \/ OrderTraceBreak \/ OrderReturn
    \/ AddWalls \/ ImportReturn

SpecRoom == InitRoom /\ [][NextRoom]_vars

----------------------------------------------------------------------------
(* Inputs of the import: small documents, well-formed and not              *)

MaxRecords == 2

\* the value of a key the document does not hold
Absent == [t |-> "absent"]

\* the JSON object with the members whose value is not Absent
ObjectOf(members) == JObj(SelectSeq(members, LAMBDA m : m[2] # Absent))

Document(dimensions, walls_data, doors_data, windows_data, objects_data) ==
    ObjectOf(<< <<"dimensions", dimensions>>, <<"walls", walls_data>>,
                <<"doors", doors_data>>, <<"windows", windows_data>>,
                <<"objects", objects_data>> >>)

\* the lists of at most MaxRecords records drawn from a set of samples
ListsOf(samples) == {JList(l) : l \in UNION {[1..n -> samples] : n \in 0..MaxRecords}}

\* a position and dimensions record: centre (x, z), and the members given
PlacedRecord(x, z, dims) ==
    JObj(<< <<"dimensions", JObj(dims)>>,
            <<"transform",
              JObj(<< <<"position", JObj(<< <<"x", JNum(x)>>, <<"z", JNum(z)>> >>)>> >>)>> >>)

DimensionsSamples ==
    {Absent, JNull, JObj(<<>>),
     JObj(<< <<"width", JNum(Eighths(2))>>, <<"height", JNum(Eighths(20))>>,
             <<"length", JNum(Eighths(2))>> >>),
     JObj(<< <<"width", JNum(Eighths(2))>>, <<"height", JStr("tall", 4)>> >>)}

\* two walls that meet in a corner
WallPair ==
    <<WallRecord(Eighths(2), Eighths(20), Eighths(1), 0, UnitsPerInch, 0),
      WallRecord(Eighths(2), Eighths(20), Eighths(2), Eighths(1), 0, UnitsPerInch)>>

\* two walls that meet end to end: the second runs towards the corner
FlippedPair ==
    <<WallPair[1],
      WallRecord(Eighths(2), Eighths(20), Eighths(2), Eighths(1), 0, -UnitsPerInch)>>

WallSamples ==
    {WallPair[1], WallPair[2],
     JObj(<<>>),
     PlacedRecord(Eighths(2), 0, << <<"width", JNum(Eighths(2))>>,
                                    <<"thickness", JNum(Eighths(1))>> >>),
     PlacedRecord(0, Eighths(2), << <<"width", JNum(Eighths(4))>>,
                                    <<"thickness", JNum(0)>> >>),
     WallRecord(Eighths(2), Eighths(20), Eighths(1), Eighths(2), 2 * UnitsPerInch, 0),
     WallRecord(Eighths(10), Eighths(20), 0, 0, 3 * UnitsPerInch, 4 * UnitsPerInch),
     WallRecord(Eighths(2), Eighths(20), Eighths(1), Eighths(4), 0, 0),
     JObj(<< <<"dimensions", JObj(<< <<"width", JNum(Eighths(2))>> >>)>>,
             <<"transform",
               JObj(<< <<"matrix", JList(<<JList(<<JNum(0), JNum(0),
                                                   JNum(UnitsPerInch)>>)>>)>> >>)>> >>),
     JNull,
     JObj(<< <<"dimensions", JNull>> >>),
     JObj(<< <<"transform", JNull>> >>),
     JObj(<< <<"dimensions", JObj(<< <<"width", JStr("wide", 4)>> >>)>> >>),
     JObj(<< <<"transform",
              JObj(<< <<"position", JObj(<< <<"x", JStr("left", 4)>> >>)>> >>)>> >>),
     JObj(<< <<"transform", JObj(<< <<"matrix", JNum(7)>> >>)>> >>),
     JObj(<< <<"transform",
              JObj(<< <<"matrix", JList(<<JList(<<JNum(1)>>), JList(<<>>), JList(<<>>),
                                          JList(<<>>)>>)>> >>)>> >>)}

\* values of a section that are not lists: null, a number, a string, an object
NotLists == {JNull, JNum(5), JStr("ab", 2), JObj(<< <<"a", JNum(1)>> >>)}

\* doors beside the first wall and as near the second, beyond the end of the
\* first, before its start, beyond the end of the second, far from both
DoorSamples ==
    {PlacedRecord(Eighths(1), Eighths(1),
                  << <<"width", JNum(Eighths(2))>>, <<"height", JNum(Eighths(5))>> >>),
     PlacedRecord(Eighths(3), Eighths(1), << <<"width", JNum(Eighths(13))>> >>),
     PlacedRecord(-Eighths(1), 0, << <<"width", JNum(Eighths(2))>> >>),
     PlacedRecord(Eighths(2), Eighths(3), << <<"width", JNum(Eighths(2))>> >>),
     PlacedRecord(Eighths(16), Eighths(16), << <<"width", JNum(Eighths(2))>> >>),
     JObj(<<>>),
     JNull,
     JObj(<< <<"dimensions", JNum(3)>> >>)}

WindowSamples ==
    {PlacedRecord(Eighths(2), Eighths(2),
                  << <<"width", JNum(Eighths(10))>>, <<"height", JNum(Eighths(3))>> >>),
     JObj(<<>>),
     JObj(<< <<"transform", JNull>> >>)}

\* an object record: category, and the members of its transform
ObjectRecord(category, transform) ==
    JObj(<< <<"category", category>>, <<"transform", JObj(transform)>> >>)

\* a transform whose rotation holds the yaws given and whose matrix has the
\* direction (dir_x, dir_z)
BothRotations(yaws, dir_x, dir_z) ==
    << <<"rotation", JObj(yaws)>>, <<"matrix", MatrixOf(dir_x, dir_z)>> >>

ObjectSamples ==
    {ObjectRecord(JStr("Chair", 5),
                  << <<"rotation", JObj(<< <<"yaw_degrees", JNum(Whole(450))>> >>)>> >>),
     ObjectRecord(JStr("SINK", 4), << <<"matrix", MatrixOf(0, UnitsPerInch)>> >>),
     ObjectRecord(JStr("Bed", 3),
                  << <<"rotation", JObj(<< <<"yaw_radians", JNum(Whole(2))>> >>)>> >>),
     ObjectRecord(JStr("table", 5),
                  BothRotations(<< <<"yaw_degrees", JNum(0)>>,
                                   <<"yaw_radians", JNum(Whole(2))>> >>, 0, UnitsPerInch)),
     ObjectRecord(JStr("desk", 4),
                  BothRotations(<< <<"yaw_degrees", JNum(-Whole(90))>> >>, -UnitsPerInch, 0)),
     ObjectRecord(JStr("stove", 5),
                  BothRotations(<< <<"yaw_radians", JNum(Whole(1))>> >>, 0, -UnitsPerInch)),
     ObjectRecord(JStr("oven", 4),
                  BothRotations(<< <<"yaw_degrees", JNull>>,
                                   <<"yaw_radians", JNum(Whole(1))>> >>, 0, UnitsPerInch)),
     ObjectRecord(JStr("toilet", 6), BothRotations(<<>>, UnitsPerInch, UnitsPerInch)),
     ObjectRecord(JStr("washer", 6),
                  << <<"rotation", JObj(<< <<"yaw_degrees", JTiny(-1)>> >>)>> >>),
     ObjectRecord(JStr("plant", 5), <<>>),
     JObj(<<>>),
     JNull,
     ObjectRecord(JNum(5), <<>>),
     ObjectRecord(JStr("sofa", 4), << <<"rotation", JNum(5)>> >>),
     ObjectRecord(JStr("desk", 4), << <<"matrix", JNum(7)>> >>)}

\* desks whose transform holds a matrix that is no 4x4 list of numbers: an
\* empty list, a first row of two entries, a first row that is a number, a
\* first row of strings
MatrixSamples ==
    {ObjectRecord(JStr("desk", 4), << <<"matrix", JList(<<>>)>> >>),
     ObjectRecord(JStr("desk", 4),
                  << <<"matrix", JList(<<JList(<<JNum(UnitsPerInch), JNum(0)>>)>>)>> >>),
     ObjectRecord(JStr("desk", 4), << <<"matrix", JList(<<JNum(5)>>)>> >>),
     ObjectRecord(JStr("desk", 4),
                  << <<"matrix", JList(<<JList(<<JStr("a", 1), JStr("b", 1),
                                                 JStr("c", 1), JStr("d", 1)>>)>>)>> >>)}

\* the walls of the documents with openings: none, an empty list, a list of
\* malformed records, one wall of no length, two walls that meet
OpeningWalls ==
    {Absent, JList(<<>>), JList(<<JNull>>), JList(<<JObj(<<>>)>>), JList(WallPair)}

\* the documents about the room: any dimensions, with walls or a value that
\* is no list
RoomDocuments ==
    {Document(d, w, Absent, Absent, Absent) :
        d \in DimensionsSamples, w \in {Absent, JList(WallPair)} \cup NotLists}

\* the documents about the records: any walls; doors, windows and objects,
\* with and without walls; a malformed matrix; two walls that meet end to
\* end, with one door and one window
RecordDocuments ==
    {Document(Absent, w, Absent, Absent, Absent) : w \in ListsOf(WallSamples)}
    \cup {Document(Absent, w, d, n, Absent) :
            w \in OpeningWalls,
            d \in {Absent, JNum(5)} \cup ListsOf(DoorSamples),
            n \in {Absent, JNum(5), JList(<<JObj(<<>>)>>)}}
    \cup {Document(Absent, w, Absent, n, Absent) :
            w \in OpeningWalls, n \in ListsOf(WindowSamples)}
    \cup {Document(Absent, w, Absent, Absent, b) :
            w \in {Absent, JList(WallPair)}, b \in {Absent, JNum(5), JStr("ab", 2)}}
    \cup {Document(Absent, Absent, Absent, Absent, b) : b \in ListsOf(ObjectSamples)}
    \cup {Document(Absent, Absent, Absent, Absent, JList(<<r>>)) : r \in MatrixSamples}
    \cup {Document(Absent, JList(FlippedPair), JList(<<d>>), JList(<<JObj(<<>>)>>), Absent) :
            d \in DoorSamples}

Documents == RoomDocuments \cup RecordDocuments

\* the tolerance of the importer: the default, and 1/16in
Tolerances == {DefaultSnapTolerance, UnitsPerInch \div 16}

\* the documents about the room are imported with either tolerance
Init ==
    /\ \/ data \in RoomDocuments /\ corner_snap_tolerance \in Tolerances
       \/ data \in RecordDocuments /\ corner_snap_tolerance = DefaultSnapTolerance
    /\ ImportCalled
    /\ NotEditing
    /\ SingleThread

Next ==
    \/ ImportBegin \/ CreateWall
    \/ SnapBegin \/ SnapPair \/ SnapReturn
    \/ OrderBegin \/ OrderTraceStep \/ OrderTraceBreak \/ OrderReturn
    \/ AddWalls \/ ImportDoor \/ ImportWindow \/ ImportObject \/ ImportReturn

Spec == Init /\ [][Next]_vars

----------------------------------------------------------------------------
(* Inputs of the classification of openings by width                       *)

\* the widest opening, in feet
MaxFeet == 7

\* converted widths: 36in to MaxFeet feet by the foot, each with the two
\* widths 1/UnitsPerInch to its either side
OpeningWidths == {Inches(12 * feet) + d : feet \in 3..MaxFeet, d \in -1..1}

InitType ==
    /\ door_width \in OpeningWidths
    /\ door_type = "none"
    /\ window_width \in OpeningWidths
    /\ window_type = "none"
    /\ pc = "classify"
    /\ caller = "direct"
    /\ nextId = 1
    /\ walls = <<>>
    /\ walls0 = <<>>
    /\ corner_snap_tolerance = DefaultSnapTolerance
    /\ graph = <<>>
    /\ ordered = <<>>
    /\ visited = {}
    /\ current_idx = 0
    /\ ordered_walls = <<>>
    /\ order_outcome = "none"
    /\ snap_i = 0
    /\ snap_j = 0
    /\ point1 = NoPoint
    /\ snapped_count = 0
    /\ snap_calls = 0
    /\ NotImporting
    /\ NotEditing
    /\ SingleThread

NextType == ClassifyDoor \/ ClassifyWindow

SpecType == InitType /\ [][NextType]_vars

----------------------------------------------------------------------------
(* Properties of the reconciler                                            *)

\* the first pass has returned; walls0 is the list it was given
FirstPassDone == pc = "snap_done" /\ snap_calls = 1

\* the second pass has returned; walls0 is the list the first pass left
SecondPassDone == pc = "snap_done" /\ snap_calls = 2

Endpoints(ws) == 1..(2 * Len(ws))

\* endpoints e and f belong to different walls and were at a distance d,
\* 0 < d < tolerance, before the pass
CloseBefore(e, f) ==
    /\ EndpointWall(e) # EndpointWall(f)
    /\ ShouldSnap(EndpointPoint(walls0, e), EndpointPoint(walls0, f), corner_snap_tolerance)

\* point p is not within tolerance of point q
OutOfTolerance(p, q) == DistSq(p, q) >= corner_snap_tolerance * corner_snap_tolerance

\* no third endpoint was within tolerance of e or of f before the pass
NoThirdNearby(e, f) ==
    \A g \in Endpoints(walls0) \ {e, f} :
        /\ OutOfTolerance(EndpointPoint(walls0, g), EndpointPoint(walls0, e))
        /\ OutOfTolerance(EndpointPoint(walls0, g), EndpointPoint(walls0, f))

\* both endpoints are the identical point, at the exact midpoint of their
\* positions before the pass, and every other endpoint is as it was
SnappedToMidpointOnly(e, f) ==
    /\ EndpointPoint(walls, e) = EndpointPoint(walls, f)
    /\ 2 * EndpointPoint(walls, e).x = EndpointPoint(walls0, e).x + EndpointPoint(walls0, f).x
    /\ 2 * EndpointPoint(walls, e).y = EndpointPoint(walls0, e).y + EndpointPoint(walls0, f).y
    /\ \A g \in Endpoints(walls0) \ {e, f} : EndpointPoint(walls, g) = EndpointPoint(walls0, g)

\* C4 (as claimed): after the pass, any two endpoints of different walls that
\* were at a distance d, 0 < d < tolerance, before it are one and the same point.
C4_CloseEndpointsShareOnePoint ==
    FirstPassDone =>
        \A e, f \in Endpoints(walls0) :
            CloseBefore(e, f) => EndpointPoint(walls, e) = EndpointPoint(walls, f)

\* C5 (as claimed): a second pass with the same tolerance on the result of
\* the first moves no endpoint and returns a snap count of 0.
C5_SecondPassIsNoOp ==
    SecondPassDone => (walls = walls0 /\ snapped_count = 0)

\* C8 (as claimed): two endpoints of different walls at a distance d,
\* 0 < d < tolerance, with no third endpoint within tolerance of either, are
\* after the pass the identical point at their exact midpoint, and every
\* other endpoint of every wall is unchanged.
C8_IsolatedPairSnapsToMidpoint ==
    FirstPassDone =>
        \A e, f \in Endpoints(walls0) :
            (CloseBefore(e, f) /\ NoThirdNearby(e, f)) => SnappedToMidpointOnly(e, f)

\* no third endpoint was within tolerance of the midpoint of e and f
NoThirdNearMidpoint(e, f) ==
    \A g \in Endpoints(walls0) \ {e, f} :
        OutOfTolerance(EndpointPoint(walls0, g),
                       AvgPoint(EndpointPoint(walls0, e), EndpointPoint(walls0, f), 0))

\* e and f were the only two endpoints at a distance d, 0 < d < tolerance
OnlyClosePair(e, f) ==
    \A g, h \in Endpoints(walls0) :
        (g # h /\ {g, h} # {e, f}) =>
            ~ShouldSnap(EndpointPoint(walls0, g), EndpointPoint(walls0, h),
                        corner_snap_tolerance)

\* C8 (amended): two endpoints of different walls at a distance d,
\* 0 < d < tolerance, with no third endpoint within tolerance of either or of
\* their midpoint, and with no other two endpoints within tolerance of each
\* other, are after the pass the identical point at their exact midpoint, and
\* every other endpoint of every wall is unchanged.
C8_OnlyPairSnapsToMidpoint ==
    FirstPassDone =>
        \A e, f \in Endpoints(walls0) :
            (CloseBefore(e, f) /\ NoThirdNearby(e, f) /\ NoThirdNearMidpoint(e, f)
             /\ OnlyClosePair(e, f))
            => SnappedToMidpointOnly(e, f)

C8_Witness ==
    /\ FirstPassDone
    /\ Len(walls0) = 2
    /\ \E e, f \in Endpoints(walls0) :
          /\ CloseBefore(e, f) /\ NoThirdNearby(e, f) /\ NoThirdNearMidpoint(e, f)
          /\ OnlyClosePair(e, f)
          /\ SnappedToMidpointOnly(e, f)
          /\ snapped_count = 1

----------------------------------------------------------------------------
(* Properties of the sequencer                                             *)

OrderDone == pc = "done" /\ order_outcome # "none"

\* the trace visited every wall, so the traced chain (not the fallback) is returned
TraceComplete == OrderDone /\ Len(walls0) >= 2 /\ Cardinality(visited) = Len(walls0)

\* the trace stopped at a wall without unvisited end-successor
TraceBroken == OrderDone /\ Len(walls0) >= 2 /\ Cardinality(visited) < Len(walls0)

\* r is w with start and end swapped, all else kept
IsFlipOf(r, w) ==
    /\ r.start = w.end
    /\ r.end = w.start
    /\ r.thickness = w.thickness
    /\ r.height = w.height
    /\ r.wall_type = w.wall_type

SomeFlipped(ws) == \E k \in 1..Len(ws) : \E j \in 1..Len(walls0) : IsFlipOf(ws[k], walls0[j])
                                                                 /\ ws[k].id # walls0[j].id

\* every wall's end is within the adjacency tolerance of the next wall's start
ChainAdjacent(ws) ==
    \A k \in 1..(Len(ws) - 1) : WithinOrderTolerance(ws[k].end, ws[k + 1].start)

\* every wall's end is at the next wall's start
ChainExact(ws) ==
    \A k \in 1..(Len(ws) - 1) : SamePlace(ws[k].end, ws[k + 1].start)

Place(p) == <<p.x, p.y>>

Corners(ws) == {Place(ws[k].start) : k \in 1..Len(ws)} \cup {Place(ws[k].end) : k \in 1..Len(ws)}

\* walls reachable from wall 1 through shared corners, ignoring direction
RECURSIVE TouchClosure(_, _)
TouchClosure(ws, S) ==
    LET T == S \cup {j \in 1..Len(ws) : \E k \in S :
                        {Place(ws[j].start), Place(ws[j].end)}
                        \cap {Place(ws[k].start), Place(ws[k].end)} # {}}
    IN  IF T = S THEN S ELSE TouchClosure(ws, T)

\* ignoring direction the walls form one simple closed loop: no wall of zero
\* length, every corner the endpoint of exactly two walls, all walls connected
SimpleLoop(ws) ==
    /\ Len(ws) >= 3
    /\ \A k \in 1..Len(ws) : ~SamePlace(ws[k].start, ws[k].end)
    /\ \A c \in Corners(ws) :
          Cardinality({k \in 1..Len(ws) : Place(ws[k].start) = c})
          + Cardinality({k \in 1..Len(ws) : Place(ws[k].end) = c}) = 2
    /\ TouchClosure(ws, {1}) = 1..Len(ws)

\* a simple closed loop whose walls all run the same way round
DirectedLoop(ws) ==
    /\ SimpleLoop(ws)
    /\ \A k \in 1..Len(ws) :
          Cardinality({j \in 1..Len(ws) : j # k /\ SamePlace(ws[k].end, ws[j].start)}) = 1

\* no two different corners lie within the adjacency tolerance of each other
CornersApart(ws) ==
    \A k, j \in 1..Len(ws) : \A p \in {ws[k].start, ws[k].end} :
        \A q \in {ws[j].start, ws[j].end} :
            WithinOrderTolerance(p, q) => SamePlace(p, q)

\* C1 (as claimed): whenever the trace visited every wall, every consecutive
\* pair of the returned list has wall[i].end within 0.1in of wall[i+1].start.
C1_ChainAdjacentWheneverTraced == TraceComplete => ChainAdjacent(ordered_walls)

\* C2 (as claimed): for every input that, ignoring direction, is one simple
\* closed loop, the sequencer returns all walls as one directionally consistent
\* chain, each wall's end at the next wall's start, backward walls reversed.
C2_LoopBecomesConsistentChain ==
    (OrderDone /\ SimpleLoop(walls0)) =>
        /\ Len(ordered_walls) = Len(walls0)
        /\ ChainExact(ordered_walls)
        /\ SamePlace(ordered_walls[Len(ordered_walls)].end, ordered_walls[1].start)

\* C3: the input list and its wall objects are never modified, and when the
\* trace stops before every wall is visited the input list itself is
\* returned: same walls, same order, same orientations, never a partial chain.
C3_FallbackReturnsInputUnchanged ==
    /\ walls = walls0
    /\ TraceBroken => ordered_walls = walls0

C3_Witness ==
    /\ TraceBroken
    /\ Len(ordered) = 2
    /\ Len(walls0) = 3
    /\ ordered[2].id # walls0[2].id /\ ordered[2].id # walls0[3].id
    /\ ordered_walls = walls0

\* the one-to-one correspondences between returned and input walls
WallMatchings(n) == {f \in [1..n -> 1..n] : \A a, b \in 1..n : f[a] = f[b] => a = b}

\* C6: the returned list has exactly as many walls as the input and matches
\* it one-to-one: each returned wall is an input wall itself or an input wall
\* with start and end swapped that keeps thickness, height and wall type.
C6_ReturnsPermutationWithFlips ==
    OrderDone =>
        /\ Len(ordered_walls) = Len(walls0)
        /\ \E f \in WallMatchings(Len(walls0)) :
              \A k \in 1..Len(walls0) :
                  \/ ordered_walls[k] = walls0[f[k]]
                  \/ IsFlipOf(ordered_walls[k], walls0[f[k]])

C6_Witness ==
    /\ TraceComplete
    /\ Len(walls0) = 3
    /\ ordered_walls[2] # walls0[2]
    /\ SomeFlipped(ordered_walls)

\* the conclusion of C7: all walls, none reversed, from input wall 0 on, each
\* wall's end at the next wall's start and the last wall's end at the first's start
ReturnsLoopFromWallZero ==
    /\ Len(ordered_walls) = Len(walls0)
    /\ ordered_walls[1] = walls0[1]
    /\ \A k \in 1..Len(walls0) : \E j \in 1..Len(walls0) : ordered_walls[k] = walls0[j]
    /\ \A j \in 1..Len(walls0) : \E k \in 1..Len(walls0) : ordered_walls[k] = walls0[j]
    /\ ChainExact(ordered_walls)
    /\ SamePlace(ordered_walls[Len(ordered_walls)].end, ordered_walls[1].start)

\* C7 (as claimed): for every simple closed loop whose walls all run the same
\* way round, listed in any order, the sequencer returns all walls, none
\* reversed, beginning with input wall 0, as a closed exact chain.
C7_DirectedLoopTracedUnreversed ==
    (OrderDone /\ DirectedLoop(walls0)) => ReturnsLoopFromWallZero

\* C7 (amended): the same, for loops whose different corners are at least
\* 0.1in apart.
C7_DirectedLoopCornersApart ==
    (OrderDone /\ DirectedLoop(walls0) /\ CornersApart(walls0)) => ReturnsLoopFromWallZero

C7_Witness ==
    /\ OrderDone /\ DirectedLoop(walls0) /\ CornersApart(walls0)
    /\ ordered_walls # walls0
    /\ ReturnsLoopFromWallZero

----------------------------------------------------------------------------
(* Properties of the import of a rectangular room                          *)

\* import_from_dict has returned its floor plan
ImportReturned == pc = "done" /\ caller = "import"

\* which way a wall runs
Heading(w) == <<Sign(w.end.x - w.start.x), Sign(w.end.y - w.start.y)>>

AxisParallel(w) == Abs(Heading(w)[1]) + Abs(Heading(w)[2]) = 1

\* the successor maps that lead from wall 1 through all n walls and back
RoundTrips(n) ==
    {f \in Listings(n) : {1, f[1], f[f[1]], f[f[f[1]]]} = 1..n}

\* four axis-parallel walls that run the same way round, each turning a
\* quarter into its successor; at every corner the end of a wall and the
\* start of its successor are less than the tolerance apart, and every other
\* two endpoints are at least the tolerance apart
RectangularRoom(ws, tolerance) ==
    /\ Len(ws) = 4
    /\ \A k \in 1..4 : AxisParallel(ws[k])
    /\ \E next \in RoundTrips(4) :
          /\ \/ \A k \in 1..4 : Heading(ws[next[k]]) = <<-Heading(ws[k])[2], Heading(ws[k])[1]>>
             \/ \A k \in 1..4 : Heading(ws[next[k]]) = <<Heading(ws[k])[2], -Heading(ws[k])[1]>>
          /\ \A k \in 1..4 :
                DistSq(ws[k].end, ws[next[k]].start) < tolerance * tolerance
          /\ \A e, f \in Endpoints(ws) :
                (e # f /\ \A k \in 1..4 : {e, f} # {2 * k, 2 * next[k] - 1})
                => DistSq(EndpointPoint(ws, e), EndpointPoint(ws, f))
                   >= tolerance * tolerance

\* C9 (as claimed): for a rectangular room given as four wall records all
\* running the same way round, listed in any order, whose two nearest
\* endpoints at each corner are less than the snap tolerance apart and farther
\* than the tolerance from every other endpoint, the floor plan returned holds
\* exactly 4 walls, each wall's end is at the next wall's start, and the last
\* wall's end is less than 1in from the first wall's start.
C9_RoomImportsAsClosedChain ==
    (ImportReturned /\ RectangularRoom(extracted, corner_snap_tolerance)) =>
        /\ Len(floor_plan.walls) = 4
        /\ ChainExact(floor_plan.walls)
        /\ ClosesLoop(floor_plan.walls[4].end, floor_plan.walls[1].start)

----------------------------------------------------------------------------
(* Properties of the import of any document                                *)

\* the number of records of a section of the document
RecordCount(d, key) ==
    IF Get(d, key, JList(<<>>)).t = "list" THEN Len(Get(d, key, JList(<<>>)).items) ELSE 0

\* C10 (as claimed): import_from_dict never raises, for any parsed document;
\* and the floor plan it returns holds at most as many walls as the document
\* has wall records, at most as many openings as door plus window records,
\* and at most as many furniture plus fixtures as object records.
C10_ImportNeverRaises ==
    /\ pc # "raised"
    /\ ImportReturned =>
          /\ Len(floor_plan.walls) <= RecordCount(data, "walls")
          /\ Len(floor_plan.openings)
             <= RecordCount(data, "doors") + RecordCount(data, "windows")
          /\ Len(floor_plan.furniture) + Len(floor_plan.fixtures)
             <= RecordCount(data, "objects")

----------------------------------------------------------------------------
(* Properties of _create_walls_from_data                                   *)

\* _create_walls_from_data has returned; extracted is the list it returned
WallsExtracted ==
    /\ RoomDimsOk(data)
    /\ SectionStart(data, "walls") = "loop"
    /\ pc \notin {"import", "walls"}

WallRecords == Elements(Get(data, "walls", JList(<<>>)))

\* the malformed records the contract lists: not an object, null dimensions
\* or transform, non-numeric width or position, a matrix of 4 rows or more
\* whose first row has fewer than 3 entries
ListedMalformed(rec) ==
    \/ rec.t # "obj"
    \/ Get(rec, "dimensions", JObj(<<>>)) = JNull
    \/ Get(rec, "transform", JObj(<<>>)) = JNull
    \/ Get(Get(rec, "dimensions", JObj(<<>>)), "width", JNum(0)).t # "num"
    \/ \E key \in {"x", "y", "z"} :
          Get(Get(Get(rec, "transform", JObj(<<>>)), "position", JObj(<<>>)),
              key, JNum(0)).t # "num"
    \/ LET matrix == Get(Get(rec, "transform", JObj(<<>>)), "matrix", JNull)
       IN  /\ matrix.t = "list"
           /\ Len(matrix.items) >= 4
           /\ matrix.items[1].t = "list"
           /\ Len(matrix.items[1].items) < 3

\* two Wall objects that differ in identity at most
SameWallValue(v, w) ==
    /\ SamePlace(v.start, w.start)
    /\ SamePlace(v.end, w.end)
    /\ v.thickness = w.thickness
    /\ v.wall_type = w.wall_type
    /\ v.height = w.height

\* the strictly increasing maps from 1..n into 1..m
Increasing(n, m) == {f \in [1..n -> 1..m] : \A a, b \in 1..n : a < b => f[a] < f[b]}

\* C11: _create_walls_from_data returns one wall for each well-formed record,
\* in input order, and skips every malformed record: the returned walls are
\* the walls of some records in increasing order, every record left out is
\* one whose try block raises, no record the contract lists as malformed
\* yields a wall, and each wall is the wall its record yields when it is the
\* only record of the list.
C11_OneWallPerWellFormedRecord ==
    WallsExtracted =>
        /\ Len(extracted) <= Len(WallRecords)
        /\ \E f \in Increasing(Len(extracted), Len(WallRecords)) :
              /\ \A j \in 1..Len(WallRecords) :
                    (\A k \in 1..Len(extracted) : f[k] # j) <=> ~WallRecordOk(WallRecords[j])
              /\ \A k \in 1..Len(extracted) :
                    /\ ~ListedMalformed(WallRecords[f[k]])
                    /\ SameWallValue(extracted[k], WallFromRecord(WallRecords[f[k]], 1))
        /\ \A j \in 1..Len(WallRecords) :
              ListedMalformed(WallRecords[j]) => ~WallRecordOk(WallRecords[j])

\* a malformed record listed before a well-formed one, and the one wall made
C11_Witness ==
    /\ WallsExtracted
    /\ Len(WallRecords) = 2
    /\ ListedMalformed(WallRecords[1])
    /\ ~ListedMalformed(WallRecords[2])
    /\ Len(extracted) = 1
    /\ extracted[1].start.x # extracted[1].end.x

----------------------------------------------------------------------------
(* Properties of _import_doors and _import_windows                         *)

\* an exception has left import_from_dict, and it was raised by the room
\* dimensions or by len() of a section, not by a record
RaisedOutsideRecords ==
    \/ ~RoomDimsOk(data)
    \/ \E key \in {"walls", "doors", "windows", "objects"} : SectionStart(data, key) = "raise"

\* the door or window record under key at index k can be read
ReadableOpening(key, k) ==
    OpeningRecordOk(Elements(Get(data, key, JList(<<>>)))[k], Whole(36),
                    IF key = "doors" THEN Whole(80) ELSE Whole(48))

\* C12: every opening of the floor plan names a wall of the floor plan's
\* wall list, which is final before the first opening is made; a floor plan
\* without walls gets no opening, and no door or window record makes the
\* import raise.
C12_OpeningsBoundToPlanWalls ==
    /\ \A k \in 1..Len(floor_plan.openings) :
          \E j \in 1..Len(floor_plan.walls) :
              floor_plan.walls[j].id = floor_plan.openings[k].wall_id
    /\ floor_plan.walls = <<>> => floor_plan.openings = <<>>
    /\ pc = "raised" => RaisedOutsideRecords

\* a walls array of malformed records only, and a readable door skipped
C12_Witness ==
    /\ ImportReturned
    /\ Truthy(Get(data, "walls", JList(<<>>)))
    /\ floor_plan.walls = <<>>
    /\ Get(data, "doors", JList(<<>>)).t = "list"
    /\ \E k \in 1..Len(Elements(Get(data, "doors", JList(<<>>)))) : ReadableOpening("doors", k)
    /\ floor_plan.openings = <<>>

\* C13: every opening has a position from 0 to 1.
C13_PositionWithinWall ==
    \A k \in 1..Len(floor_plan.openings) :
        /\ floor_plan.openings[k].position.den > 0
        /\ 0 <= floor_plan.openings[k].position.num
        /\ floor_plan.openings[k].position.num <= floor_plan.openings[k].position.den

\* the wall an opening of the floor plan names
WallOf(fp, opening) == fp.walls[CHOOSE j \in 1..Len(fp.walls) : fp.walls[j].id = opening.wall_id]

\* the point of the door record at index k
DoorPoint(k) == RecPoint(Elements(Get(data, "doors", JList(<<>>)))[k])

\* two doors: one beyond the end of its wall, held at 1, and one before the
\* start of its wall, held at 0
C13_Witness ==
    /\ ImportReturned
    /\ Len(floor_plan.openings) = 2
    /\ Len(Elements(Get(data, "doors", JList(<<>>)))) = 2
    /\ floor_plan.openings[1].position = Fraction(1, 1)
    /\ Projection(WallOf(floor_plan, floor_plan.openings[1]), DoorPoint(1))
          > WallLengthSq(WallOf(floor_plan, floor_plan.openings[1]))
    /\ floor_plan.openings[2].position = Fraction(0, 1)
    /\ Projection(WallOf(floor_plan, floor_plan.openings[2]), DoorPoint(2)) < 0

\* wall j of the floor plan is nearer the point than wall k
NearerWall(fp, p, j, k) ==
    Nearer(PointToWallDistanceSq(p, fp.walls[j], CommonFactor(fp.walls, p)),
           PointToWallDistanceSq(p, fp.walls[k], CommonFactor(fp.walls, p)))

\* the step handles a readable door or window record of a floor plan with walls
BindsOpening ==
    /\ pc \in {"doors", "windows"}
    /\ floor_plan.walls # <<>>
    /\ ReadableOpening(pc, rec_i)

\* C14: a readable door or window record of a floor plan with walls always
\* yields an opening, bound to a wall no other wall is nearer the record's
\* point than, and to the first such wall of the floor plan.
C14_OpeningBoundToNearestWall ==
    [][BindsOpening =>
          /\ Len(floor_plan'.openings) = Len(floor_plan.openings) + 1
          /\ LET p == RecPoint(Elements(Get(data, pc, JList(<<>>)))[rec_i])
                 opening == floor_plan'.openings[Len(floor_plan'.openings)]
             IN  \E k \in 1..Len(floor_plan.walls) :
                     /\ floor_plan.walls[k].id = opening.wall_id
                     /\ \A j \in 1..Len(floor_plan.walls) : ~NearerWall(floor_plan, p, j, k)
                     /\ \A j \in 1..(k - 1) : NearerWall(floor_plan, p, k, j)]_vars

\* two doors: one as near the first wall as the second, bound to the first,
\* and one 8 times the length of a wall away, bound to the second
C14_Witness ==
    /\ ImportReturned
    /\ Len(floor_plan.walls) = 2
    /\ Len(floor_plan.openings) = 2
    /\ Len(Elements(Get(data, "doors", JList(<<>>)))) = 2
    /\ ~NearerWall(floor_plan, DoorPoint(1), 1, 2)
    /\ ~NearerWall(floor_plan, DoorPoint(1), 2, 1)
    /\ floor_plan.openings[1].wall_id = floor_plan.walls[1].id
    /\ floor_plan.openings[2].wall_id = floor_plan.walls[2].id
    /\ DistSq(DoorPoint(2), floor_plan.walls[2].end)
          > 64 * WallLengthSq(floor_plan.walls[2])

----------------------------------------------------------------------------
(* Properties of the classification of openings by width                   *)

\* C15: the type of a door is DOOR_DOUBLE when its width is over 60in and
\* DOOR_SINGLE otherwise, 60in included; the type of a window is
\* WINDOW_PICTURE over 72in, WINDOW_DOUBLE over 48in and up to 72in, and
\* WINDOW_SINGLE up to 48in.
C15_TypeFromWidth ==
    /\ door_type \in {"none", "DOOR_SINGLE", "DOOR_DOUBLE"}
    /\ door_type = "DOOR_DOUBLE" => door_width > Inches(60)
    /\ door_type = "DOOR_SINGLE" => door_width <= Inches(60)
    /\ window_type \in {"none", "WINDOW_SINGLE", "WINDOW_DOUBLE", "WINDOW_PICTURE"}
    /\ window_type = "WINDOW_PICTURE" => window_width > Inches(72)
    /\ window_type = "WINDOW_DOUBLE" =>
          Inches(48) < window_width /\ window_width <= Inches(72)
    /\ window_type = "WINDOW_SINGLE" => window_width <= Inches(48)

\* a door of exactly 60in and a window of exactly 72in, both classified
C15_Witness ==
    /\ door_width = Inches(60)
    /\ door_type = "DOOR_SINGLE"
    /\ window_width = Inches(72)
    /\ window_type = "WINDOW_DOUBLE"

----------------------------------------------------------------------------
(* Properties of _import_objects                                           *)

ObjectRecords == Elements(Get(data, "objects", JList(<<>>)))

\* the lower-cased category of an object record; a record that is no object
\* or whose category is no string has none
CategoryOf(rec) ==
    IF rec.t = "obj" /\ Get(rec, "category", JStr("", 0)).t = "str"
    THEN Lower(Get(rec, "category", JStr("", 0)).s)
    ELSE ""

\* every key of the two tables maps to a member of its enumeration, and no
\* key is in both
TablesSound ==
    /\ \A key \in DOMAIN FIXTURE_MAPPING : FIXTURE_MAPPING[key] \in FixtureType
    /\ \A key \in DOMAIN FURNITURE_MAPPING : FURNITURE_MAPPING[key] \in FurnitureType
    /\ DOMAIN FIXTURE_MAPPING \cap DOMAIN FURNITURE_MAPPING = {}

\* the step goes on to the next object record, or to the return after the last
NextRecordOrReturn ==
    IF rec_i < Len(ObjectRecords) THEN rec_i' = rec_i + 1 /\ pc' = "objects"
    ELSE pc' = "return"

\* the step adds one fixture of the type, and nothing else
AddsFixture(fixture_type) ==
    /\ Len(floor_plan'.fixtures) = Len(floor_plan.fixtures) + 1
    /\ floor_plan'.fixtures[Len(floor_plan'.fixtures)].fixture_type = fixture_type
    /\ SubSeq(floor_plan'.fixtures, 1, Len(floor_plan.fixtures)) = floor_plan.fixtures
    /\ floor_plan'.furniture = floor_plan.furniture

\* the step adds one furniture item of the type, and nothing else
AddsFurniture(furniture_type) ==
    /\ Len(floor_plan'.furniture) = Len(floor_plan.furniture) + 1
    /\ floor_plan'.furniture[Len(floor_plan'.furniture)].furniture_type = furniture_type
    /\ SubSeq(floor_plan'.furniture, 1, Len(floor_plan.furniture)) = floor_plan.furniture
    /\ floor_plan'.fixtures = floor_plan.fixtures

\* what the step on an object record does, for the records that satisfy the
\* premise: a category of FIXTURE_MAPPING adds the mapped fixture, a category
\* of FURNITURE_MAPPING the mapped furniture item, any other category nothing
ObjectStepFor(premise(_)) ==
    pc = "objects" =>
        /\ TablesSound
        /\ NextRecordOrReturn
        /\ LET rec == ObjectRecords[rec_i]
               category == CategoryOf(rec)
           IN  /\ (category \in DOMAIN FIXTURE_MAPPING /\ premise(rec)) =>
                     AddsFixture(FIXTURE_MAPPING[category])
               /\ (category \in DOMAIN FURNITURE_MAPPING /\ premise(rec)) =>
                     AddsFurniture(FURNITURE_MAPPING[category])
               /\ category \notin (DOMAIN FIXTURE_MAPPING \cup DOMAIN FURNITURE_MAPPING) =>
                     floor_plan' = floor_plan

AnyRecord(rec) == TRUE

\* C16, as stated: every object record with a recognised category adds one
\* fixture or one furniture item of the mapped type; a record with an
\* unrecognised category adds nothing; the next record is processed.
C16_RecognisedCategoryAddsItem == [][ObjectStepFor(AnyRecord)]_vars

\* C16, amended: every object record with a recognised category whose
\* dimensions, position and rotation can be read adds one fixture or one
\* furniture item of the mapped type; a record with an unrecognised category
\* adds nothing; the next record is processed.
C16_ReadableRecognisedAddsItem == [][ObjectStepFor(ObjectRecordOk)]_vars

\* an unrecognised category, then a category written with a capital: the
\* one furniture item of the second record
C16_Witness ==
    /\ ImportReturned
    /\ Get(data, "objects", JList(<<>>)).t = "list"
    /\ Len(ObjectRecords) = 2
    /\ CategoryOf(ObjectRecords[1]) = "plant"
    /\ ObjectRecords[2].t = "obj"
    /\ Get(ObjectRecords[2], "category", JNull) = JStr("Chair", 5)
    /\ Len(floor_plan.furniture) = 1
    /\ floor_plan.furniture[1].furniture_type = "CHAIR"
    /\ floor_plan.fixtures = <<>>

----------------------------------------------------------------------------
(* Properties of _extract_rotation_from_matrix                             *)

\* the step adds a fixture or a furniture item
AddsItem == pc = "objects" /\ floor_plan' # floor_plan

\* the rotation of the item the step adds
NewRotation ==
    IF floor_plan'.furniture # floor_plan.furniture
    THEN floor_plan'.furniture[Len(floor_plan'.furniture)].rotation
    ELSE floor_plan'.fixtures[Len(floor_plan'.fixtures)].rotation

\* the yaw of the name is present in the rotation of the transform
YawPresent(transform, name) ==
    /\ Get(transform, "rotation", JNull).t = "obj"
    /\ Get(Get(transform, "rotation", JNull), name, JNull) # JNull

\* a transform that holds the yaw of the name and nothing else
OnlyYaw(transform, name) ==
    JObj(<< <<"rotation",
              JObj(<< <<name, Get(Get(transform, "rotation", JNull), name, JNull)>> >>)>> >>)

\* a transform that holds the matrix, if there is one, and nothing else
OnlyMatrix(transform) ==
    IF Has(transform, "matrix")
    THEN JObj(<< <<"matrix", Get(transform, "matrix", JNull)>> >>)
    ELSE JObj(<<>>)

\* C17: the rotation of an item is the one its yaw_degrees alone gives when
\* yaw_degrees is present, 0 included; else the one its yaw_radians alone
\* gives when yaw_radians is present; else the one its matrix alone gives.
\* A yaw that is null counts as not present.
C17_RotationPrecedence ==
    [][AddsItem =>
          LET transform == RecTransform(ObjectRecords[rec_i])
          IN  NewRotation =
                  RotationDegrees(IF YawPresent(transform, "yaw_degrees")
                                  THEN OnlyYaw(transform, "yaw_degrees")
                                  ELSE IF YawPresent(transform, "yaw_radians")
                                  THEN OnlyYaw(transform, "yaw_radians")
                                  ELSE OnlyMatrix(transform))]_vars

\* the angle a transform with this matrix alone gives
MatrixAngle(transform) == RotationDegrees(OnlyMatrix(transform))

\* a table with yaw_degrees 0, yaw_radians 2 and a matrix turned by 270
\* degrees, imported with rotation 0
C17_Witness ==
    /\ ImportReturned
    /\ Get(data, "objects", JList(<<>>)).t = "list"
    /\ Len(ObjectRecords) = 1
    /\ CategoryOf(ObjectRecords[1]) = "table"
    /\ Get(RotationData(RecTransform(ObjectRecords[1])), "yaw_degrees", JNull) = JNum(0)
    /\ YawPresent(RecTransform(ObjectRecords[1]), "yaw_radians")
    /\ MatrixAngle(RecTransform(ObjectRecords[1])) = Whole(270)
    /\ Len(floor_plan.furniture) = 1
    /\ floor_plan.furniture[1].rotation = 0

\* C18: the rotation of every furniture item and of every fixture is at
\* least 0 and less than 360 degrees.
C18_RotationBelow360 ==
    /\ \A k \in 1..Len(floor_plan.furniture) :
          0 <= floor_plan.furniture[k].rotation /\ floor_plan.furniture[k].rotation < Whole(360)
    /\ \A k \in 1..Len(floor_plan.fixtures) :
          0 <= floor_plan.fixtures[k].rotation /\ floor_plan.fixtures[k].rotation < Whole(360)

----------------------------------------------------------------------------
(* Properties of the walls _create_walls_from_data returns                 *)

\* the records whose try block raises nothing, in input order: extracted[k]
\* is the wall of KeptRecords[k]
KeptRecords == SelectSeq(WallRecords, WallRecordOk)

\* the thickness, the width and the position of a wall record, as the
\* document gives them
RecordThickness(rec) == Get(Get(rec, "dimensions", JObj(<<>>)), "thickness", JNum(0)).n

RecordWidth(rec) == Get(Get(rec, "dimensions", JObj(<<>>)), "width", JNum(0)).n

RecordCentre(rec, key) ==
    Get(Get(Get(rec, "transform", JObj(<<>>)), "position", JObj(<<>>)), key, JNum(0)).n

\* C19: the thickness of an extracted wall is the thickness of its record
\* converted from meters to inches when that is positive, and 6in when it is
\* zero or absent.
C19_ThicknessInInches ==
    WallsExtracted =>
        \A k \in 1..Len(extracted) :
            extracted[k].thickness =
                IF RecordThickness(KeptRecords[k]) > 0
                THEN RecordThickness(KeptRecords[k]) * METERS_TO_INCHES
                ELSE Inches(6)

\* the record has a matrix of 4 rows whose first row is the direction
HasDirection(rec, dir_x, dir_z) ==
    Get(Get(rec, "transform", JObj(<<>>)), "matrix", JNull) = MatrixOf(dir_x, dir_z)

\* C20: an extracted wall is centred on the position of its record converted
\* to inches, and its length is the width of its record converted to inches.
C20_CentredWithRecordWidth ==
    WallsExtracted =>
        \A k \in 1..Len(extracted) :
            /\ extracted[k].start.x + extracted[k].end.x
                  = 2 * RecordCentre(KeptRecords[k], "x") * METERS_TO_INCHES
            /\ extracted[k].start.y + extracted[k].end.y
                  = 2 * RecordCentre(KeptRecords[k], "z") * METERS_TO_INCHES
            /\ DistSq(extracted[k].start, extracted[k].end)
                  = (RecordWidth(KeptRecords[k]) * METERS_TO_INCHES)
                    * (RecordWidth(KeptRecords[k]) * METERS_TO_INCHES)

\* a wall along a direction of length 5 that is parallel to no axis, and a
\* wall whose matrix has the null direction
C20_Witness ==
    /\ WallsExtracted
    /\ Len(WallRecords) = 2
    /\ Len(extracted) = 2
    /\ HasDirection(KeptRecords[1], 3 * UnitsPerInch, 4 * UnitsPerInch)
    /\ extracted[1].start.x # extracted[1].end.x
    /\ extracted[1].start.y # extracted[1].end.y
    /\ HasDirection(KeptRecords[2], 0, 0)
    /\ RecordWidth(KeptRecords[2]) > 0

----------------------------------------------------------------------------
(* Properties of import_from_dict: the order of its steps                  *)

\* the step of import_from_dict the control stands in
StepRank(p) ==
    CASE p = "import" -> 0
      [] p = "walls" -> 1
      [] p \in {"snap", "snap_pair", "snap_return"} -> 2
      [] p \in {"order", "order_trace"} -> 3
      [] p = "add_walls" -> 4
      [] p = "doors" -> 5
      [] p = "windows" -> 6
      [] p = "objects" -> 7
      [] OTHER -> 8

IsDoor(o) == o.opening_type \in {"DOOR_SINGLE", "DOOR_DOUBLE"}

\* what the floor plan holds while the control stands in a step
StepsInOrder ==
    /\ StepRank(pc) <= 4 =>
            /\ floor_plan.walls = <<>>
            /\ floor_plan.openings = <<>>
    /\ StepRank(pc) \in 1..3 => ordered_walls = <<>>
    /\ StepRank(pc) \in 2..4 => Len(walls) = Len(extracted)
    /\ pc \in {"doors", "windows", "objects", "return", "done"} =>
            floor_plan.walls = ordered_walls
    /\ floor_plan.walls \in {<<>>, ordered_walls}
    /\ StepRank(pc) <= 5 =>
            \A k \in 1..Len(floor_plan.openings) : IsDoor(floor_plan.openings[k])
    /\ StepRank(pc) <= 6 =>
            /\ floor_plan.furniture = <<>>
            /\ floor_plan.fixtures = <<>>

\* the control never goes back to an earlier step, and once the walls are
\* added no step changes the list of walls or a wall in it
StepsForward ==
    /\ StepRank(pc') >= StepRank(pc)
    /\ StepRank(pc) >= 5 => floor_plan'.walls = floor_plan.walls
    /\ StepRank(pc) = 7 => floor_plan'.openings = floor_plan.openings

\* C21: import_from_dict extracts all walls, then snaps them, then
\* sequences them, then adds them to the floor plan, and only then handles
\* doors, then windows, then objects: no opening exists before the walls are
\* added, the walls of the floor plan are the list the sequencer returned in
\* its order, and the later steps leave the walls as they are.
C21_StepsInFixedOrder == []StepsInOrder /\ [][StepsForward]_vars

\* an import that is over, of two walls the sequencer reversed one of, a
\* door and a window
C21_Witness ==
    /\ ImportReturned
    /\ Len(floor_plan.walls) = 2
    /\ floor_plan.walls # extracted
    /\ floor_plan.walls # walls
    /\ \E k \in 1..Len(floor_plan.openings) : IsDoor(floor_plan.openings[k])
    /\ \E k \in 1..Len(floor_plan.openings) : ~IsDoor(floor_plan.openings[k])

----------------------------------------------------------------------------
(* Properties of _order_walls_fixed: the trace                             *)

\* input wall j has an endpoint within the adjacency tolerance of the end of
\* input wall i
TouchesEndOf(i, j) ==
    /\ j # i
    /\ \/ WithinOrderTolerance(walls[i].end, walls[j].start)
       \/ WithinOrderTolerance(walls[i].end, walls[j].end)

\* the walls the trace may go to from input wall i
Successors(i) == {j \in 1..Len(walls) : TouchesEndOf(i, j) /\ j \notin visited}

LowestSuccessor(i) == CHOOSE j \in Successors(i) : \A m \in Successors(i) : j <= m

\* one step of the function, told from the input walls alone
TraceStep ==
    /\ pc = "order" /\ Len(walls) >= 2 =>
            /\ ordered' = <<walls[1]>>
            /\ current_idx' = 1
            /\ visited' = {1}
    /\ pc = "order" /\ Len(walls) = 1 => ordered_walls' = walls
    /\ pc = "order_trace" =>
            IF Cardinality(visited) < Len(walls) /\ Successors(current_idx) # {}
            THEN LET j == LowestSuccessor(current_idx)
                     taken == ordered'[Len(ordered')]
                 IN  /\ Len(ordered') = Len(ordered) + 1
                     /\ SubSeq(ordered', 1, Len(ordered)) = ordered
                     /\ current_idx' = j
                     /\ visited' = visited \cup {j}
                     /\ pc' = "order_trace"
                     /\ IF WithinOrderTolerance(walls[current_idx].end, walls[j].start)
                        THEN taken = walls[j]
                        ELSE IsFlipOf(taken, walls[j]) /\ taken.id # walls[j].id
            ELSE /\ pc' # "order_trace"
                 /\ ordered' = ordered
                 /\ visited' = visited

\* C23: the trace starts at input wall 0, kept as it is, and at each step
\* goes to the lowest-indexed unvisited wall recorded as end-successor of
\* the current wall, unreversed when its start touches (also when its end
\* touches too), reversed otherwise; when the current wall has no unvisited
\* successor the trace ends, whatever successors earlier walls still have.
C23_TraceIsDeterministic == [][TraceStep]_vars

\* a trace that went from wall 0 to wall 1, which touches with both its
\* ends, while wall 2 was a successor of wall 0 as well
C23_Witness ==
    /\ pc = "order_trace"
    /\ Len(walls) = 3
    /\ visited = {1, 2}
    /\ current_idx = 2
    /\ TouchesEndOf(1, 3)
    /\ WithinOrderTolerance(walls[1].end, walls[2].start)
    /\ WithinOrderTolerance(walls[1].end, walls[2].end)
    /\ ordered = <<walls[1], walls[2]>>

\* a trace that ended at a wall without successor while wall 0 still had one
C23_NoBacktracking ==
    /\ TraceBroken
    /\ current_idx # 1
    /\ Successors(1) # {}

----------------------------------------------------------------------------
(* Properties of _order_walls_fixed: the closing distance                  *)

\* f lists the walls of ws as a path from input wall 0 on: each wall ends
\* where the next starts, and no corner is passed twice
PathFrom(ws, f) ==
    /\ f[1] = 1
    /\ \A k \in 1..(Len(ws) - 1) : SamePlace(ws[f[k]].end, ws[f[k + 1]].start)
    /\ Cardinality({Place(ws[1].start)} \cup {Place(ws[k].end) : k \in 1..Len(ws)})
           = Len(ws) + 1

\* an open path of consistently oriented walls that begins at input wall 0
DirectedPath(ws) == Len(ws) >= 2 /\ \E f \in Listings(Len(ws)) : PathFrom(ws, f)

ReturnsPathOrder ==
    \E f \in Listings(Len(walls0)) :
        /\ PathFrom(walls0, f)
        /\ ordered_walls = [k \in 1..Len(walls0) |-> walls0[f[k]]]

\* whenever the trace visited every wall the traced chain is returned
TracedChainReturned ==
    TraceComplete =>
        /\ ordered_walls = ordered
        /\ order_outcome =
               IF ClosesLoop(ordered[Len(ordered)].end, ordered[1].start)
               THEN "closed" ELSE "open"

\* C24 (as claimed): whenever the trace visits every wall the traced order
\* is returned, whether the last wall's end is within 1.0in of the first
\* wall's start or not; an open path of consistently oriented walls that
\* begins at input wall 0 is returned in path order.
C24_ClosureNeverChangesReturn ==
    /\ TracedChainReturned
    /\ (OrderDone /\ DirectedPath(walls0)) => ReturnsPathOrder

\* C24 (amended): the same, for the open paths whose different corners are
\* at least 0.1in apart.
C24_ClosureNeverChangesReturnCornersApart ==
    /\ TracedChainReturned
    /\ (OrderDone /\ DirectedPath(walls0) /\ CornersApart(walls0)) => ReturnsPathOrder

\* an open path of three walls, not listed in path order, whose end is more
\* than 1.0in from its start
C24_Witness ==
    /\ OrderDone /\ DirectedPath(walls0) /\ CornersApart(walls0)
    /\ Len(walls0) = 3
    /\ order_outcome = "open"
    /\ ordered_walls # walls0
    /\ ReturnsPathOrder

----------------------------------------------------------------------------
(* Properties of _extract_rotation_from_matrix: a malformed matrix         *)

\* the record can be read up to its rotation, and its category is in one
\* of the two tables
ReadableUpToRotation(rec) ==
    /\ IsDict(rec)
    /\ CategoryOf(rec) \in DOMAIN FIXTURE_MAPPING \cup DOMAIN FURNITURE_MAPPING
    /\ IsDict(RecDims(rec))
    /\ IsNumber(Get(RecDims(rec), "width", JNum(Whole(24))))
    /\ IsNumber(Get(RecDims(rec), "height", JNum(Whole(30))))
    /\ IsNumber(Get(RecDims(rec), "depth", JNum(Whole(24))))
    /\ IsDict(RecTransform(rec))
    /\ IsDict(RecPosition(rec))
    /\ IsNumber(Get(RecPosition(rec), "x", JNum(0)))
    /\ IsNumber(Get(RecPosition(rec), "z", JNum(0)))

\* the transform has no rotation field, or one that holds no yaw
NoYaw(transform) ==
    \/ ~Has(transform, "rotation")
    \/ /\ IsDict(RotationData(transform))
       /\ Get(RotationData(transform), "yaw_degrees", JNull) = JNull
       /\ Get(RotationData(transform), "yaw_radians", JNull) = JNull

\* a list whose first row is a list of three numbers or more
WellFormedMatrix(matrix) ==
    /\ matrix.t = "list"
    /\ Len(matrix.items) >= 1
    /\ matrix.items[1].t = "list"
    /\ Len(matrix.items[1].items) >= 3
    /\ \A k \in 1..Len(matrix.items[1].items) : IsNumber(matrix.items[1].items[k])

\* C25 (as claimed): an object record without yaw whose matrix is absent or
\* malformed in any way is imported with rotation 0; it is never dropped.
C25_MalformedMatrixKeepsObject ==
    [][(/\ pc = "objects"
        /\ ReadableUpToRotation(ObjectRecords[rec_i])
        /\ NoYaw(RecTransform(ObjectRecords[rec_i]))
        /\ ~WellFormedMatrix(RotationMatrix(RecTransform(ObjectRecords[rec_i]))))
          => AddsItem /\ NewRotation = 0]_vars

----------------------------------------------------------------------------
(* Properties of _snap_corners: the positions a snap is computed from      *)

\* C26 (as claimed): every comparison of endpoint i with endpoint j measures
\* from the position endpoint i has at that moment, also when an earlier
\* snap of the same pass moved it, and a snap sets both endpoints to the
\* midpoint of that position and the position of endpoint j.
C26_SnapsUseCurrentPositions ==
    [][pc = "snap_pair" =>
          walls' = SnapStep(walls, snap_i, snap_j, EndpointPoint(walls, snap_i),
                            corner_snap_tolerance, nextId)]_vars

\* C27 (as claimed): the start and the end of one wall are never snapped
\* onto each other: a wall of non-zero length that has no endpoint of
\* another wall within tolerance of its endpoints has non-zero length
\* after the pass.
C27_WallKeepsItsLength ==
    FirstPassDone =>
        \A k \in 1..Len(walls0) :
            (/\ ~SamePlace(walls0[k].start, walls0[k].end)
             /\ \A g \in Endpoints(walls0) :
                    EndpointWall(g) # k =>
                        /\ OutOfTolerance(EndpointPoint(walls0, g), walls0[k].start)
                        /\ OutOfTolerance(EndpointPoint(walls0, g), walls0[k].end))
            => ~SamePlace(walls[k].start, walls[k].end)

----------------------------------------------------------------------------
(* FloorPlan: walls, openings and rooms (core/geometry.py)                 *)

\* None
None == [none |-> TRUE]

\* Room(name, wall_ids, id)
Room(name, wall_ids, rid) == [name |-> name, wall_ids |-> wall_ids, id |-> rid]

\* how a method ends: with the floor plan as it left it, and the value it
\* returned or the exception it raised
Returned(fp, value) == [floor_plan |-> fp, raised |-> FALSE, value |-> value]

Raised(fp) == [floor_plan |-> fp, raised |-> TRUE, value |-> None]

\* where the loop 'for item in items: if item.id == an_id' stops: at the
\* first item that has the id or that is None (item.id raises
\* AttributeError); 0 when it runs to the end
StopsAt(items, an_id) ==
    LET stops == {k \in 1..Len(items) : items[k] = None \/ items[k].id = an_id}
    IN  IF stops = {} THEN 0 ELSE CHOOSE k \in stops : \A m \in stops : k <= m

\* items.pop(k)
Popped(items, k) == SubSeq(items, 1, k - 1) \o SubSeq(items, k + 1, Len(items))

HasNone(items) == \E k \in 1..Len(items) : items[k] = None

OnWall(openings, wall_id) == SelectSeq(openings, LAMBDA o : o.wall_id = wall_id)

NotOnWall(openings, wall_id) == SelectSeq(openings, LAMBDA o : o.wall_id # wall_id)

add_wall(fp, wall) == Returned([fp EXCEPT !.walls = Append(@, wall)], wall.id)

\* the wall is popped before the openings are filtered
remove_wall(fp, wall_id) ==
    LET k == StopsAt(fp.walls, wall_id)
    IN  IF k = 0 THEN Returned(fp, FALSE)
        ELSE IF fp.walls[k] = None THEN Raised(fp)
        ELSE IF HasNone(fp.openings)
        THEN Raised([fp EXCEPT !.walls = Popped(@, k)])
        ELSE Returned([fp EXCEPT !.walls = Popped(@, k),
                                 !.openings = NotOnWall(@, wall_id)], TRUE)

get_wall(fp, wall_id) ==
    LET k == StopsAt(fp.walls, wall_id)
    IN  IF k = 0 THEN Returned(fp, None)
        ELSE IF fp.walls[k] = None THEN Raised(fp)
        ELSE Returned(fp, fp.walls[k])

\* ValueError when get_wall finds no wall
add_opening(fp, opening) ==
    IF get_wall(fp, opening.wall_id).raised \/ get_wall(fp, opening.wall_id).value = None
    THEN Raised(fp)
    ELSE Returned([fp EXCEPT !.openings = Append(@, opening)], opening.id)

remove_opening(fp, opening_id) ==
    LET k == StopsAt(fp.openings, opening_id)
    IN  IF k = 0 THEN Returned(fp, FALSE)
        ELSE IF fp.openings[k] = None THEN Raised(fp)
        ELSE Returned([fp EXCEPT !.openings = Popped(@, k)], TRUE)

add_room(fp, room) == Returned([fp EXCEPT !.rooms = Append(@, room)], room.id)

remove_room(fp, room_id) ==
    LET k == StopsAt(fp.rooms, room_id)
    IN  IF k = 0 THEN Returned(fp, FALSE)
        ELSE IF fp.rooms[k] = None THEN Raised(fp)
        ELSE Returned([fp EXCEPT !.rooms = Popped(@, k)], TRUE)

----------------------------------------------------------------------------
(* The commands (utils/undo_stack.py)                                      *)

\* a new command object; n tells it from the other command objects
AddWallCommand(wall, n) ==
    [class |-> "AddWallCommand", n |-> n, wall |-> wall, wall_id |-> ""]

RemoveWallCommand(wall_id, n) ==
    [class |-> "RemoveWallCommand", n |-> n, wall_id |-> wall_id, wall |-> None,
     removed_openings |-> <<>>]

AddOpeningCommand(opening, n) ==
    [class |-> "AddOpeningCommand", n |-> n, opening |-> opening, opening_id |-> ""]

RemoveOpeningCommand(opening_id, n) ==
    [class |-> "RemoveOpeningCommand", n |-> n, opening_id |-> opening_id,
     opening |-> None]

AddRoomCommand(room, n) ==
    [class |-> "AddRoomCommand", n |-> n, room |-> room, room_id |-> ""]

RemoveRoomCommand(room_id, n) ==
    [class |-> "RemoveRoomCommand", n |-> n, room_id |-> room_id, room |-> None]

\* how execute ends: the floor plan and the command object as it left them
Executed(fp, raised, command) == [floor_plan |-> fp, raised |-> raised, command |-> command]

\* command.execute(floor_plan)
Execute(command, fp) ==
    CASE command.class = "AddWallCommand" ->
            Executed(add_wall(fp, command.wall).floor_plan, FALSE,
                     [command EXCEPT !.wall_id = add_wall(fp, command.wall).value])
      [] command.class = "RemoveWallCommand" ->
            IF get_wall(fp, command.wall_id).raised THEN Executed(fp, TRUE, command)
            ELSE IF HasNone(fp.openings)
            THEN Executed(fp, TRUE,
                          [command EXCEPT !.wall = get_wall(fp, command.wall_id).value])
            ELSE Executed(remove_wall(fp, command.wall_id).floor_plan,
                          remove_wall(fp, command.wall_id).raised,
                          [command EXCEPT
                              !.wall = get_wall(fp, command.wall_id).value,
                              !.removed_openings = OnWall(fp.openings, command.wall_id)])
      [] command.class = "AddOpeningCommand" ->
            IF add_opening(fp, command.opening).raised THEN Executed(fp, TRUE, command)
            ELSE Executed(add_opening(fp, command.opening).floor_plan, FALSE,
                          [command EXCEPT
                              !.opening_id = add_opening(fp, command.opening).value])
      [] command.class = "RemoveOpeningCommand" ->
            LET k == StopsAt(fp.openings, command.opening_id)
            IN  IF k = 0 THEN Executed(fp, FALSE, command)
                ELSE IF fp.openings[k] = None THEN Executed(fp, TRUE, command)
                ELSE Executed(remove_opening(fp, command.opening_id).floor_plan, FALSE,
                              [command EXCEPT !.opening = fp.openings[k]])
      [] command.class = "AddRoomCommand" ->
            Executed(add_room(fp, command.room).floor_plan, FALSE,
                     [command EXCEPT !.room_id = add_room(fp, command.room).value])
      [] command.class = "RemoveRoomCommand" ->
            LET k == StopsAt(fp.rooms, command.room_id)
            IN  IF k = 0 THEN Executed(fp, FALSE, command)
                ELSE IF fp.rooms[k] = None THEN Executed(fp, TRUE, command)
                ELSE Executed(remove_room(fp, command.room_id).floor_plan, FALSE,
                              [command EXCEPT !.room = fp.rooms[k]])

\* command.undo(floor_plan)
UndoCommand(command, fp) ==
    CASE command.class = "AddWallCommand" -> remove_wall(fp, command.wall_id)
      [] command.class = "RemoveWallCommand" ->
            Returned([fp EXCEPT !.walls = Append(@, command.wall),
                                !.openings = @ \o command.removed_openings], None)
      [] command.class = "AddOpeningCommand" -> remove_opening(fp, command.opening_id)
      [] command.class = "RemoveOpeningCommand" ->
            Returned([fp EXCEPT !.openings = Append(@, command.opening)], None)
      [] command.class = "AddRoomCommand" -> remove_room(fp, command.room_id)
      [] command.class = "RemoveRoomCommand" ->
            Returned([fp EXCEPT !.rooms = Append(@, command.room)], None)

----------------------------------------------------------------------------
(* UndoStack (utils/undo_stack.py)                                         *)

MaxCalls == 3

can_undo == current_index >= 0

can_redo == current_index < Len(commands) - 1

Stack(cmds, idx) == [commands |-> cmds, current_index |-> idx]

\* lines 214-223, were the commands after current_index kept
Pushed_KeepsRedo(cmds, idx, size, command) ==
    IF Len(cmds) + 1 > size
    THEN Stack(Tail(Append(cmds, command)), idx)
    ELSE Stack(Append(cmds, command), idx + 1)

\* lines 214-223, were the list left to grow
Pushed_Unlimited(cmds, idx, size, command) ==
    Stack(Append(SubSeq(cmds, 1, idx + 1), command), idx + 1)

\* lines 214-223: the commands after current_index are dropped, the command
\* is appended, and the oldest command is popped when the list is too long
Pushed(cmds, idx, size, command) ==
    IF idx + 2 > size
    THEN Stack(Tail(Append(SubSeq(cmds, 1, idx + 1), command)), idx)
    ELSE Stack(Append(SubSeq(cmds, 1, idx + 1), command), idx + 1)

\* the record of a call: what was called, on which command object, how it
\* ended, and the floor plan and the stack before it
Call(op, command, raised, value) ==
    [op |-> op, command |-> command, raised |-> raised, value |-> value,
     floor_plan |-> floor_plan, commands |-> commands, current_index |-> current_index]

\* what the methods of UndoStack leave alone
EditFrame ==
    UNCHANGED <<pc, caller, nextId, walls, walls0, corner_snap_tolerance, orderVars,
                snapVars, data, rec_i, extracted, typeVars, max_size, threadVars>>

\* execute_command(command, floor_plan)
ExecuteCommand(command) ==
    /\ pc = "edit"
    /\ Len(calls) < MaxCalls
    /\ LET done == Execute(command, floor_plan)
           stack == Pushed(commands, current_index, max_size, done.command)
       IN  /\ floor_plan' = done.floor_plan
           /\ IF done.raised
              THEN UNCHANGED <<commands, current_index>>
              ELSE /\ commands' = stack.commands
                   /\ current_index' = stack.current_index
           /\ calls' = Append(calls, Call("execute_command", done.command, done.raised, None))
    /\ EditFrame

\* undo(floor_plan)
Undo ==
    /\ pc = "edit"
    /\ Len(calls) < MaxCalls
    /\ IF ~can_undo
       THEN /\ calls' = Append(calls, Call("undo", None, FALSE, FALSE))
            /\ UNCHANGED <<floor_plan, commands, current_index>>
       ELSE LET command == commands[current_index + 1]
                done == UndoCommand(command, floor_plan)
            IN  /\ floor_plan' = done.floor_plan
                /\ current_index' = IF done.raised THEN current_index
                                    ELSE current_index - 1
                /\ calls' = Append(calls, Call("undo", command, done.raised,
                                               IF done.raised THEN None ELSE TRUE))
                /\ UNCHANGED commands
    /\ EditFrame

\* redo(floor_plan)
Redo ==
    /\ pc = "edit"
    /\ Len(calls) < MaxCalls
    /\ IF ~can_redo
       THEN /\ calls' = Append(calls, Call("redo", None, FALSE, FALSE))
            /\ UNCHANGED <<floor_plan, commands, current_index>>
       ELSE LET done == Execute(commands[current_index + 2], floor_plan)
            IN  /\ current_index' = current_index + 1
                /\ commands' = [commands EXCEPT ![current_index + 2] = done.command]
                /\ floor_plan' = done.floor_plan
                /\ calls' = Append(calls, Call("redo", done.command, done.raised,
                                               IF done.raised THEN None ELSE TRUE))
    /\ EditFrame

\* clear()
Clear ==
    /\ pc = "edit"
    /\ Len(calls) < MaxCalls
    /\ commands' = <<>>
    /\ current_index' = -1
    /\ calls' = Append(calls, Call("clear", None, FALSE, None))
    /\ UNCHANGED floor_plan
    /\ EditFrame

----------------------------------------------------------------------------
(* Inputs of the UndoStack                                                 *)

\* the wall, the opening in it and the room of the identity given
EditWall(k) ==
    Wall(Point(0, Inches(12 * k), 100 + k), Point(Inches(96), Inches(12 * k), 200 + k),
         Inches(6), "INTERIOR", Inches(96), k)

EditOpening(k) == Opening(k, Fraction(1, 2), Inches(36), Inches(80), "DOOR_SINGLE", 10 + k)

EditRoom(k) == Room("Room", <<k>>, 20 + k)

\* the floor plans editing starts from: an empty one, and one of a wall
\* with an opening and a room
EditPlans ==
    {FloorPlan(Inches(96)),
     [FloorPlan(Inches(96)) EXCEPT !.walls = <<EditWall(1)>>,
                                   !.openings = <<EditOpening(1)>>,
                                   !.rooms = <<EditRoom(1)>>]}

\* the commands call n may execute: on wall 1, which is in the second floor
\* plan, and on wall 2, which is in no floor plan until it is added
EditCommands(n) ==
    {AddWallCommand(EditWall(2), n),
     RemoveWallCommand(1, n), RemoveWallCommand(2, n),
     AddOpeningCommand(EditOpening(2), n),
     RemoveOpeningCommand(11, n), RemoveOpeningCommand(12, n),
     AddRoomCommand(EditRoom(2), n),
     RemoveRoomCommand(21, n), RemoveRoomCommand(22, n)}

\* the sizes of the stack: none, one, and more than the calls made
MaxSizes == {0, 1, MaxCalls}

InitUndo ==
    /\ floor_plan \in EditPlans
    /\ max_size \in MaxSizes
    /\ commands = <<>>
    /\ current_index = -1
    /\ calls = <<>>
    /\ pc = "edit"
    /\ caller = "direct"
    /\ nextId = 1
    /\ walls = <<>>
    /\ walls0 = <<>>
    /\ corner_snap_tolerance = DefaultSnapTolerance
    /\ graph = <<>>
    /\ ordered = <<>>
    /\ visited = {}
    /\ current_idx = 0
    /\ ordered_walls = <<>>
    /\ order_outcome = "none"
    /\ snap_i = 0
    /\ snap_j = 0
    /\ point1 = NoPoint
    /\ snapped_count = 0
    /\ snap_calls = 0
    /\ data = JObj(<<>>)
    /\ rec_i = 0
    /\ extracted = <<>>
    /\ NotClassifying
    /\ SingleThread

NextUndo ==
    \/ \E command \in EditCommands(Len(calls) + 1) : ExecuteCommand(command)
    \/ Undo
    \/ Redo
    \/ Clear

SpecUndo == InitUndo /\ [][NextUndo]_vars

----------------------------------------------------------------------------
(* Properties of the UndoStack                                             *)

LastCall == calls[Len(calls)]

\* the step is a call of the method
Calls(op) == Len(calls') = Len(calls) + 1 /\ calls'[Len(calls')].op = op

\* the last call was an execute_command
ExecutedLast == calls # <<>> /\ LastCall.op = "execute_command"

\* the last call was an execute_command that returned
ExecuteReturnedLast == ExecutedLast /\ ~LastCall.raised

\* after the execute_command nothing can be redone, and for a stack of
\* size 1 or more the command on top is the one executed
NothingToRedo(executed) ==
    executed =>
        /\ ~can_redo
        /\ max_size >= 1 =>
              /\ can_undo
              /\ commands[current_index + 1].n = LastCall.command.n

\* a redo after the execute_command returns False and changes nothing; an
\* undo after it, for a stack of size 1 or more, undoes the command executed
NextRedoAndUndo(executed) ==
    /\ (executed /\ Calls("redo")) =>
          /\ calls'[Len(calls')].value = FALSE
          /\ UNCHANGED <<commands, current_index, floor_plan>>
    /\ (executed /\ max_size >= 1 /\ Calls("undo")) =>
          /\ calls'[Len(calls')].command # None
          /\ calls'[Len(calls')].command.n = LastCall.command.n

StackWithinBounds ==
    /\ -1 <= current_index
    /\ current_index <= Len(commands) - 1
    /\ Len(commands) <= max_size

\* an execute_command that finds the stack full drops its oldest command
OldestDropped ==
    (/\ Calls("execute_command")
     /\ ~calls'[Len(calls')].raised
     /\ current_index + 2 > max_size)
       => commands' = SubSeq(commands, 2, current_index + 1)
                         \o (IF max_size >= 1 THEN <<calls'[Len(calls')].command>>
                             ELSE <<>>)

\* C29: after every sequence of execute_command, undo, redo and clear on
\* an UndoStack with max_size >= 0, -1 <= current_index <= len(commands) - 1
\* and len(commands) <= max_size; when the limit is exceeded the oldest
\* command is the one dropped.
C29_StackWithinBounds == []StackWithinBounds /\ [][OldestDropped]_vars

\* a full stack of size 1 after a second command was executed
C29_Witness ==
    /\ max_size = 1
    /\ Len(calls) >= 2
    /\ ExecuteReturnedLast
    /\ Len(LastCall.commands) = 1
    /\ LastCall.current_index = 0
    /\ Len(commands) = 1
    /\ commands[1].n = LastCall.command.n

\* how often x is in the list
Count(items, x) == Cardinality({k \in 1..Len(items) : items[k] = x})

\* the two lists hold the same items as often, in any order
SameItems(a, b) ==
    \A x \in {a[k] : k \in 1..Len(a)} \cup {b[k] : k \in 1..Len(b)} :
        Count(a, x) = Count(b, x)

SamePlan(fp, gp) ==
    /\ SameItems(fp.walls, gp.walls)
    /\ SameItems(fp.openings, gp.openings)
    /\ SameItems(fp.rooms, gp.rooms)

\* every opening of the floor plan is in a wall of the floor plan
OpeningsBound(fp) ==
    \A k \in 1..Len(fp.openings) :
        /\ fp.openings[k] # None
        /\ \E j \in 1..Len(fp.walls) :
              fp.walls[j] # None /\ fp.walls[j].id = fp.openings[k].wall_id

\* the last two calls were an execute_command that returned, on a floor
\* plan whose openings were in its walls, and an undo that returned True
ExecutedThenUndone ==
    /\ Len(calls) >= 2
    /\ calls[Len(calls) - 1].op = "execute_command"
    /\ ~calls[Len(calls) - 1].raised
    /\ OpeningsBound(calls[Len(calls) - 1].floor_plan)
    /\ ~HasNone(calls[Len(calls) - 1].floor_plan.walls)
    /\ LastCall.op = "undo"
    /\ LastCall.value = TRUE

\* C30 (as claimed): for each of the six commands, every floor plan and
\* every target id, present or not, execute_command followed by undo leaves
\* the floor plan with the same walls, openings and rooms as before, in any
\* order, and every opening in it references a wall that is in it.
C30_ExecuteThenUndoRestores ==
    (ExecutedThenUndone /\ max_size >= 1) =>
        /\ SamePlan(floor_plan, calls[Len(calls) - 1].floor_plan)
        /\ OpeningsBound(floor_plan)

----------------------------------------------------------------------------
(* Two calls of import_from_dict on one importer                           *)

\* the local variables of a call of import_from_dict and of the functions
\* it calls; the importer itself holds corner_snap_tolerance
Locals ==
    [pc |-> pc, caller |-> caller, walls |-> walls, walls0 |-> walls0,
     graph |-> graph, ordered |-> ordered, visited |-> visited,
     current_idx |-> current_idx, ordered_walls |-> ordered_walls,
     order_outcome |-> order_outcome, snap_i |-> snap_i, snap_j |-> snap_j,
     point1 |-> point1, snapped_count |-> snapped_count, snap_calls |-> snap_calls,
     data |-> data, floor_plan |-> floor_plan, rec_i |-> rec_i, extracted |-> extracted]

\* the locals of a call that has not taken a step yet
CalledWith(document) ==
    [pc |-> "import", caller |-> "import", walls |-> <<>>, walls0 |-> <<>>,
     graph |-> <<>>, ordered |-> <<>>, visited |-> {},
     current_idx |-> 0, ordered_walls |-> <<>>,
     order_outcome |-> "none", snap_i |-> 0, snap_j |-> 0,
     point1 |-> NoPoint, snapped_count |-> 0, snap_calls |-> 0,
     data |-> document, floor_plan |-> NoFloorPlan, rec_i |-> 0, extracted |-> <<>>]

\* the thread goes on with its call where it left it
Resume(l) ==
    /\ pc' = l.pc
    /\ caller' = l.caller
    /\ walls' = l.walls
    /\ walls0' = l.walls0
    /\ graph' = l.graph
    /\ ordered' = l.ordered
    /\ visited' = l.visited
    /\ current_idx' = l.current_idx
    /\ ordered_walls' = l.ordered_walls
    /\ order_outcome' = l.order_outcome
    /\ snap_i' = l.snap_i
    /\ snap_j' = l.snap_j
    /\ point1' = l.point1
    /\ snapped_count' = l.snapped_count
    /\ snap_calls' = l.snap_calls
    /\ data' = l.data
    /\ floor_plan' = l.floor_plan
    /\ rec_i' = l.rec_i
    /\ extracted' = l.extracted

\* the call has returned or raised
Over(l) == l.pc \in {"done", "raised"}

\* threads "first" and "second" make their calls one after the other, with
\* no other call under way; threads "a" and "b" make theirs after that, and
\* either may be interrupted for the other between any two steps
MayFollow(t, u) ==
    CASE t = "first"  -> Over(Locals) /\ u = "second"
      [] t = "second" -> Over(Locals) /\ u \in {"a", "b"}
      [] OTHER        -> u \in {"a", "b"}

\* the running thread is set aside and another thread, whose call is not
\* over, runs
Switch ==
    /\ \E u \in DOMAIN parked :
          /\ ~Over(parked[u])
          /\ MayFollow(running, u)
          /\ running' = u
          /\ parked' = [t \in (DOMAIN parked \ {u}) \cup {running} |->
                           IF t = running THEN Locals ELSE parked[t]]
          /\ Resume(parked[u])
    /\ UNCHANGED <<nextId, corner_snap_tolerance, typeVars, undoVars>>

----------------------------------------------------------------------------
(* Inputs of the two calls                                                 *)

\* two walls that meet end to end with a door and a window; two walls
\* 4.875in short of their corner; a chair and a sink; two walls the trace
\* cannot follow, and objects that are no list
ThreadDocuments ==
    {Document(Absent, JList(FlippedPair),
              JList(<<PlacedRecord(Eighths(1), Eighths(1),
                                   << <<"width", JNum(Eighths(2))>>,
                                      <<"height", JNum(Eighths(5))>> >>)>>),
              JList(<<PlacedRecord(Eighths(2), Eighths(2),
                                   << <<"width", JNum(Eighths(10))>>,
                                      <<"height", JNum(Eighths(3))>> >>)>>),
              Absent),
     Document(Absent,
              JList(<<RecordBetween(<<0, 0>>, <<RoomWidth - Eighths(1), 0>>, RoomHeight),
                      RecordBetween(<<RoomWidth, 0>>, <<RoomWidth, RoomLength>>,
                                    RoomHeight)>>),
              Absent, Absent, Absent),
     Document(Absent, Absent, Absent, Absent,
              JList(<<ObjectRecord(JStr("Chair", 5),
                                   << <<"rotation",
                                        JObj(<< <<"yaw_degrees", JNum(Whole(450))>> >>)>> >>),
                      ObjectRecord(JStr("SINK", 4),
                                   << <<"matrix", MatrixOf(0, UnitsPerInch)>> >>)>>)),
     Document(Absent, JList(<<WallPair[2], WallPair[1]>>), Absent, Absent, JNum(5))}

InitThreads ==
    /\ \E first \in ThreadDocuments : \E second \in ThreadDocuments :
          /\ data = first
          /\ parked = [t \in {"second", "a", "b"} |->
                          CalledWith(IF t = "a" THEN first ELSE second)]
    /\ running = "first"
    /\ corner_snap_tolerance \in Tolerances
    /\ ImportCalled
    /\ NotEditing

NextThreads ==
    \/ ImportBegin \/ CreateWall
    \/ SnapBegin \/ SnapPair \/ SnapReturn
    \/ OrderBegin \/ OrderTraceStep \/ OrderTraceBreak \/ OrderReturn
    \/ AddWalls \/ ImportDoor \/ ImportWindow \/ ImportObject \/ ImportReturn
    \/ Switch

SpecThreads == InitThreads /\ [][NextThreads]_vars

----------------------------------------------------------------------------
(* Properties of two calls on one importer                                 *)

Threads == {"first", "second", "a", "b"}

\* the locals of the call of thread t
CallOf(t) == IF t = running THEN Locals ELSE parked[t]

\* position k of the wall of the identity in the floor plan
WallIndex(fp, wall_id) == CHOOSE k \in 1..Len(fp.walls) : fp.walls[k].id = wall_id

\* the floor plan without the identities of its objects: an opening names
\* its wall by the position of the wall
Anonymous(fp) ==
    [walls |-> [k \in 1..Len(fp.walls) |->
                   [start |-> Place(fp.walls[k].start), end |-> Place(fp.walls[k].end),
                    thickness |-> fp.walls[k].thickness,
                    wall_type |-> fp.walls[k].wall_type,
                    height |-> fp.walls[k].height]],
     openings |-> [k \in 1..Len(fp.openings) |->
                      [fp.openings[k] EXCEPT !.id = 0,
                                             !.wall_id = WallIndex(fp, @)]],
     furniture |-> [k \in 1..Len(fp.furniture) |->
                       [fp.furniture[k] EXCEPT !.id = 0, !.position.id = 0]],
     fixtures |-> [k \in 1..Len(fp.fixtures) |->
                      [fp.fixtures[k] EXCEPT !.id = 0, !.position.id = 0]],
     rooms |-> fp.rooms,
     ceiling_height |-> fp.ceiling_height]

\* what the call gave back: an exception, or a floor plan
Outcome(l) == IF l.pc = "raised" THEN <<"raised">> ELSE <<"returned", Anonymous(l.floor_plan)>>

\* the call of thread t is over and ended as the call of thread alone did
EndsAsAlone(t, alone) ==
    Over(CallOf(t)) =>
        /\ CallOf(t).data = CallOf(alone).data
        /\ Outcome(CallOf(t)) = Outcome(CallOf(alone))

\* the calls that are interleaved, and the second of the calls made one
\* after the other, end as the call made alone on their document
CallsEndAsAlone ==
    /\ EndsAsAlone("a", "first")
    /\ EndsAsAlone("b", "second")
    /\ CallOf("first").data = CallOf("second").data /\ Over(CallOf("second"))
          => Outcome(CallOf("second")) = Outcome(CallOf("first"))

\* no step writes the tolerance of the importer or a document, and no step
\* changes what a call that is over gave back
NothingShared ==
    /\ corner_snap_tolerance' = corner_snap_tolerance
    /\ \A t \in Threads :
          /\ CallOf(t)'.data = CallOf(t).data
          /\ Over(CallOf(t)) => CallOf(t)'.floor_plan = CallOf(t).floor_plan

\* C22: import_from_dict reads corner_snap_tolerance and never writes it or
\* the document; two calls on one importer, of the same or of different
\* documents, one after the other or interleaved step by step, each end as
\* the call made alone does, up to the identities of the objects, and a
\* later call never changes a floor plan returned earlier.
C22_ImportIsReentrant == []CallsEndAsAlone /\ [][NothingShared]_vars

\* the identities of the walls of a floor plan
WallIds(fp) == {fp.walls[k].id : k \in 1..Len(fp.walls)}

\* all four calls are over; those of threads a and b returned floor plans
\* of two walls each, made in turns: a wall of each got its identity between
\* those of the two walls of the other
C22_Witness ==
    /\ \A t \in Threads : Over(CallOf(t))
    /\ CallOf("a").data # CallOf("b").data
    /\ Len(CallOf("a").floor_plan.walls) = 2
    /\ Len(CallOf("b").floor_plan.walls) = 2
    /\ \E i, j \in WallIds(CallOf("a").floor_plan) :
          \E k, m \in WallIds(CallOf("b").floor_plan) : i < k /\ k < j /\ j < m
    /\ Outcome(CallOf("a")) = Outcome(CallOf("first"))
    /\ Outcome(CallOf("a")) # Outcome(CallOf("b"))

====
